---------------------------- MODULE Spec2Model ----------------------------
(***************************************************************************)
(* A model of ts-docs-loader: the export-graph resolver and orchestrator   *)
(* (Loader), the linker / partial evaluator (Linker, mergeExtensions,      *)
(* performOmit, NodeResolver, walk) and the loader cache.                  *)
(*                                                                         *)
(* JavaScript values are modelled as follows.                              *)
(*  - A documentation node is a record with a "type" field; null and       *)
(*    undefined are the record Nil.                                        *)
(*  - A JavaScript object or Map used as an ordered mapping (interface     *)
(*    properties, exports, links, the export map) is a sequence of         *)
(*    [k, v] entries in insertion order.                                   *)
(*  - An id string "<file>:<symbol>" is built by string concatenation.     *)
(***************************************************************************)
EXTENDS Integers, Sequences, FiniteSets, TLC

VARIABLES
    prog,        \* the source files on disk (file name -> file content)
    cache,       \* LoaderCache: astCache, exportCache, symbolCache
    inProgress,  \* Loader.inProgress
    stack,       \* the chain of pending async calls, innermost last
    ret,         \* the value the innermost finished call returned
    status,      \* "idle", "running", "done" or "error" (load rejected)
    result,      \* what the last top-level load resolved with
    request,     \* the last top-level request [file, req]
    loads,       \* number of top-level loads started
    evIn,        \* SpecEval, SpecCache, LiveWalk: the input of the operation;
                 \* Spec: what the previous request for the same file returned;
                 \* SpecPair: the two requests, the suspended load, and what
                 \* each request returns when it runs alone
    evOut        \* SpecEval, SpecCache: the output of the operation;
                 \* Spec: whether a file was invalidated since the last request;
                 \* LiveWalk: the objects entered and linked, in order

vars == <<prog, cache, inProgress, stack, ret, status, result, request, loads, evIn, evOut>>

(***************************************************************************)
(* Ordered mappings                                                        *)
(***************************************************************************)
Nil == [type |-> "nil"]
NoId == ""

OMKeys(m) == [i \in 1..Len(m) |-> m[i].k]
OMKeySet(m) == {m[i].k : i \in 1..Len(m)}
OMHas(m, key) == \E i \in 1..Len(m) : m[i].k = key
OMGet(m, key) == IF OMHas(m, key) THEN m[CHOOSE i \in 1..Len(m) : m[i].k = key].v ELSE Nil
\* obj[key] = value: an existing key keeps its position, a new key goes last
OMSet(m, key, value) ==
    IF OMHas(m, key)
    THEN [m EXCEPT ![CHOOSE i \in 1..Len(m) : m[i].k = key] = [k |-> key, v |-> value]]
    ELSE Append(m, [k |-> key, v |-> value])
RECURSIVE OMAssign(_, _)
\* Object.assign(target, source)
OMAssign(target, source) ==
    IF source = <<>> THEN target
    ELSE OMAssign(OMSet(target, Head(source).k, Head(source).v), Tail(source))
RECURSIVE OMRemove(_, _)
OMRemove(m, keys) ==
    IF m = <<>> THEN <<>>
    ELSE IF Head(m).k \in keys THEN OMRemove(Tail(m), keys)
         ELSE <<Head(m)>> \o OMRemove(Tail(m), keys)

HasField(n, f) == f \in DOMAIN n

(***************************************************************************)
(* util                                                                    *)
(***************************************************************************)
makeId(file, symbol) == [file |-> file, symbol |-> symbol]
makeIdString(file, symbol) == file \o ":" \o symbol

(***************************************************************************)
(* Node constructors: what the transformer emits for a declaration         *)
(***************************************************************************)
Str(v) == [type |-> "string", value |-> v]
Num == [type |-> "number"]
Ident(name) == [type |-> "identifier", name |-> name]
Ref(local, imported, specifier) ==
    [type |-> "reference", local |-> local, imported |-> imported, specifier |-> specifier]
Link(id) == [type |-> "link", id |-> id]
Union(elements) == [type |-> "union", elements |-> elements]
App(base, tps) == [type |-> "application", base |-> base, typeParameters |-> tps]
TypeParam(name, constraint, default) ==
    [type |-> "typeParameter", name |-> name, constraint |-> constraint, default |-> default]
\* a property signature under its name; the transformer sets no inheritedFrom
PropEntry(name, value) ==
    [k |-> name,
     v |-> [type |-> "property", name |-> name, value |-> value, optional |-> FALSE,
            inheritedFrom |-> NoId]]
Iface(file, name, exts, props, tps) ==
    [type |-> "interface", id |-> makeIdString(file, name), name |-> name,
     extends |-> exts, properties |-> props, typeParameters |-> tps]
Alias(file, name, value, tps) ==
    [type |-> "alias", id |-> makeIdString(file, name), name |-> name,
     value |-> value, typeParameters |-> tps]


(***************************************************************************)
(* evaluator/extends: mergeExtensions and merge                            *)
(***************************************************************************)
RECURSIVE mergeNoOverwrite(_, _, _)
\* a merge that kept the entry already in target (what its comment describes)
mergeNoOverwrite(target, source, inheritedFrom) ==
    IF source = <<>> THEN target
    ELSE LET e == Head(source)
             v == IF e.v.inheritedFrom # NoId THEN e.v
                  ELSE [e.v EXCEPT !.inheritedFrom = inheritedFrom]
         IN mergeNoOverwrite(IF OMHas(target, e.k) THEN target ELSE OMSet(target, e.k, v),
                             Tail(source), inheritedFrom)

RECURSIVE merge(_, _, _)
\* target[key] = {inheritedFrom, ...source[key]} for every key of source
merge(target, source, inheritedFrom) ==
    IF source = <<>> THEN target
    ELSE LET e == Head(source)
             v == IF e.v.inheritedFrom # NoId THEN e.v
                  ELSE [e.v EXCEPT !.inheritedFrom = inheritedFrom]
         IN merge(OMSet(target, e.k, v), Tail(source), inheritedFrom)

RECURSIVE mergeExtensions(_)
RECURSIVE mergeExts(_, _, _)
\* the loop over base.extends: returns the merged properties and the
\* extensions that did not resolve to an interface
mergeExts(exts, properties, kept) ==
    IF exts = <<>> THEN [properties |-> properties, exts |-> kept]
    ELSE LET ext == Head(exts) IN
         IF ext = Nil THEN mergeExts(Tail(exts), properties, kept)
         ELSE LET merged == mergeExtensions(ext) IN
              IF merged.type = "interface"
              THEN mergeExts(Tail(exts), merge(properties, merged.properties,
                                            IF HasField(ext, "id") THEN ext.id ELSE NoId), kept)
              ELSE mergeExts(Tail(exts), properties, Append(kept, merged))

mergeExtensions(base0) ==
    LET base == IF base0.type = "application" THEN base0.base
                ELSE IF base0.type = "alias" THEN base0.value
                ELSE base0
    IN IF base.type # "interface" THEN base
       ELSE LET r == mergeExts(base.extends, <<>>, <<>>)
            IN [base EXCEPT !.properties = merge(r.properties, base.properties, base.id),
                            !.extends = r.exts]

(***************************************************************************)
(* evaluator/nodeResolver: NodeResolver over the linker's node table       *)
(* (nodes: id -> node) and the dependency assets (deps: sequence of        *)
(* [source, id, exports, links, symbols])                                  *)
(***************************************************************************)
RECURSIVE depLink(_, _)
depLink(deps, id) ==
    IF deps = <<>> THEN Nil
    ELSE IF OMHas(Head(deps).links, id) THEN OMGet(Head(deps).links, id)
         ELSE depLink(Tail(deps), id)

resolveLink(nodes, deps, id) ==
    IF OMGet(nodes, id) # Nil THEN OMGet(nodes, id) ELSE depLink(deps, id)

RECURSIVE resolveValue(_, _, _)
resolveValue(nodes, deps, obj) ==
    IF obj.type = "link"
    THEN LET resolvedLink == resolveLink(nodes, deps, obj.id)
         IN IF resolvedLink = Nil THEN obj ELSE resolveValue(nodes, deps, resolvedLink)
    ELSE IF obj.type = "application" THEN resolveValue(nodes, deps, obj.base)
    ELSE IF obj.type = "alias" THEN resolveValue(nodes, deps, obj.value)
    ELSE obj

RECURSIVE resolveUnionElements(_, _, _)
RECURSIVE flatMapElements(_, _, _)
flatMapElements(nodes, deps, elements) ==
    IF elements = <<>> THEN <<>>
    ELSE LET resolved == resolveValue(nodes, deps, Head(elements))
             here == IF resolved.type = "string" /\ resolved.value # "" THEN <<resolved>>
                     ELSE IF resolved.type = "union"
                          THEN resolveUnionElements(nodes, deps, resolved)
                          ELSE <<resolved>>
         IN here \o flatMapElements(nodes, deps, Tail(elements))

resolveUnionElements(nodes, deps, base) ==
    IF base.type # "union" THEN <<base>>
    ELSE flatMapElements(nodes, deps, base.elements)

(***************************************************************************)
(* evaluator/omit: performOmit                                             *)
(***************************************************************************)
StringValues(elements) ==
    {elements[i].value : i \in {j \in 1..Len(elements) : elements[j].type = "string"}}

\* an Omit that reads only the literal members of the union and does not
\* follow aliases or links
omitKeysShallow(nodes, deps, toOmit) ==
    IF toOmit.type = "string" /\ toOmit.value # "" THEN {toOmit.value}
    ELSE IF toOmit.type = "union" THEN StringValues(toOmit.elements)
         ELSE {}

\* the keys named by toOmit (already resolved)
omitKeys(nodes, deps, toOmit) ==
    IF toOmit.type = "string" /\ toOmit.value # "" THEN {toOmit.value}
    ELSE IF toOmit.type = "union"
         THEN StringValues(resolveUnionElements(nodes, deps, toOmit))
         ELSE {}

performOmit(nodes, deps, base0, toOmit0) ==
    LET base == resolveValue(nodes, deps, base0)
        toOmit == resolveValue(nodes, deps, toOmit0)
    IN IF base.type \notin {"interface", "object"} THEN base
       ELSE LET keys == omitKeys(nodes, deps, toOmit)
            IN IF keys = {} THEN base
               ELSE [base EXCEPT !.properties = OMRemove(base.properties, keys)]


(***************************************************************************)
(* Linker.processCode: the walker callback and evaluator/walk.             *)
(* L is the linker ([asset, deps]); st is its mutable state: app (the      *)
(* pending `application`), nodes (this.nodes) and cache (this.cache).      *)
(* keyStack and the top frame of paramStack are passed down, since every   *)
(* push is undone before the callback returns.                             *)
(* `application = null` is app = [on |-> FALSE, v |-> <<>>].                *)
(***************************************************************************)

shouldMerge(t, k, keyStack) ==
    /\ t # Nil
    /\ t.type \in {"alias", "interface"}
    /\ \/ t.type = "interface" /\ k \in {"", "props", "extends", "keyof"}
       \/ /\ k = "base"
          /\ keyStack # <<>>
          /\ keyStack[Len(keyStack)] \in {"props", "extends"}

RECURSIVE depBySource(_, _)
\* this.dependencies[specifier]
depBySource(deps, specifier) ==
    IF deps = <<>> THEN Nil
    ELSE IF Head(deps).source = specifier THEN Head(deps)
         ELSE depBySource(Tail(deps), specifier)

RECURSIVE bindApplication(_, _, _, _)
\* params[p.name] = app[i] ?? p.default, for the raw type parameters
bindApplication(params, tps, app, i) ==
    IF i > Len(tps) THEN params
    ELSE LET p == tps[i]
             arg == IF i <= Len(app) /\ app[i] # Nil THEN app[i]
                    ELSE IF HasField(p, "default") THEN p.default ELSE Nil
         IN bindApplication(OMSet(params, p.name, arg), tps, app, i + 1)

RECURSIVE bindConstraints(_, _, _)
\* if (!params[p.name] && p.constraint) params[p.name] = p.constraint
bindConstraints(params, tps, i) ==
    IF i > Len(tps) THEN params
    ELSE LET p == tps[i]
             next == IF OMGet(params, p.name) = Nil /\ HasField(p, "constraint") /\ p.constraint # Nil
                     THEN OMSet(params, p.name, p.constraint)
                     ELSE params
         IN bindConstraints(next, tps, i + 1)

\* this.nodes[id] = node, unless an entry is there already
saveNode(nodes, id, node) == IF OMGet(nodes, id) = Nil THEN OMSet(nodes, id, node) ELSE nodes

RECURSIVE Visit(_, _, _, _, _, _)
RECURSIVE VisitSeq(_, _, _, _, _, _)
RECURSIVE VisitProps(_, _, _, _, _)
RECURSIVE VisitFields(_, _)

\* the fields of a node that hold nodes, in the order the transformer writes them
NodeFields(n) ==
    CASE n.type = "interface" -> <<"extends", "properties", "typeParameters">>
      [] n.type = "object" -> <<"properties">>
      [] n.type = "alias" -> <<"value", "typeParameters">>
      [] n.type = "application" -> <<"base", "typeParameters">>
      [] n.type = "property" -> <<"value">>
      [] n.type = "typeParameter" -> <<"constraint", "default">>
      [] n.type = "union" -> <<"elements">>
      [] n.type = "keyof" -> <<"keyof">>
      [] n.type = "component" -> <<"props", "typeParameters">>
      [] OTHER -> <<>>
ArrayFields == {"extends", "typeParameters", "elements"}

\* recurse(array, key): every item is visited under `key`
VisitSeq(L, items, key, ks, params, st) ==
    IF items = <<>> THEN [n |-> <<>>, st |-> st]
    ELSE LET h == Visit(L, Head(items), key, ks, params, st)
             t == VisitSeq(L, Tail(items), key, ks, params, h.st)
         IN [n |-> <<h.n>> \o t.n, st |-> t.st]

\* recurse(properties): every property is visited under its own name
VisitProps(L, props, ks, params, st) ==
    IF props = <<>> THEN [n |-> <<>>, st |-> st]
    ELSE LET h == Visit(L, Head(props).v, Head(props).k, ks, params, st)
             t == VisitProps(L, Tail(props), ks, params, h.st)
         IN [n |-> <<[k |-> Head(props).k, v |-> h.n]>> \o t.n, st |-> t.st]

\* recurse(node): res[f] = visit(node[f], f) for every field f of the node,
\* in the order of NodeFields. An array or a properties object is itself
\* visited (the callback pushes its key) before its members are. at is the
\* node with keyStack, the top frame of paramStack and the linker state as
\* they are when it is recursed into.
VisitFields(L, at) ==
    CASE at.n.type = "interface" ->
             LET e == VisitSeq(L, at.n.extends, "extends", Append(at.ks, "extends"), at.params, at.st)
                 p == VisitProps(L, at.n.properties, Append(at.ks, "properties"), at.params, e.st)
                 t == VisitSeq(L, at.n.typeParameters, "typeParameters",
                               Append(at.ks, "typeParameters"), at.params, p.st)
             IN [n |-> [at.n EXCEPT !.extends = e.n, !.properties = p.n, !.typeParameters = t.n],
                 st |-> t.st]
      [] at.n.type = "object" ->
             LET p == VisitProps(L, at.n.properties, Append(at.ks, "properties"), at.params, at.st)
             IN [n |-> [at.n EXCEPT !.properties = p.n], st |-> p.st]
      [] at.n.type = "alias" ->
             LET v == Visit(L, at.n.value, "value", at.ks, at.params, at.st)
                 t == VisitSeq(L, at.n.typeParameters, "typeParameters",
                               Append(at.ks, "typeParameters"), at.params, v.st)
             IN [n |-> [at.n EXCEPT !.value = v.n, !.typeParameters = t.n], st |-> t.st]
      [] at.n.type = "application" ->
             LET v == Visit(L, at.n.base, "base", at.ks, at.params, at.st)
                 t == VisitSeq(L, at.n.typeParameters, "typeParameters",
                               Append(at.ks, "typeParameters"), at.params, v.st)
             IN [n |-> [at.n EXCEPT !.base = v.n, !.typeParameters = t.n], st |-> t.st]
      [] at.n.type = "property" ->
             LET v == Visit(L, at.n.value, "value", at.ks, at.params, at.st)
             IN [n |-> [at.n EXCEPT !.value = v.n], st |-> v.st]
      [] at.n.type = "typeParameter" ->
             LET c == Visit(L, at.n.constraint, "constraint", at.ks, at.params, at.st)
                 d == Visit(L, at.n.default, "default", at.ks, at.params, c.st)
             IN [n |-> [at.n EXCEPT !.constraint = c.n, !.default = d.n], st |-> d.st]
      [] at.n.type = "union" ->
             LET e == VisitSeq(L, at.n.elements, "elements", Append(at.ks, "elements"), at.params, at.st)
             IN [n |-> [at.n EXCEPT !.elements = e.n], st |-> e.st]
      [] at.n.type = "keyof" ->
             LET v == Visit(L, at.n.keyof, "keyof", at.ks, at.params, at.st)
             IN [n |-> [at.n EXCEPT !.keyof = v.n], st |-> v.st]
      [] at.n.type = "component" ->
             LET v == Visit(L, at.n.props, "props", at.ks, at.params, at.st)
                 t == VisitSeq(L, at.n.typeParameters, "typeParameters",
                               Append(at.ks, "typeParameters"), at.params, v.st)
             IN [n |-> [at.n EXCEPT !.props = v.n, !.typeParameters = t.n], st |-> t.st]
      [] OTHER -> [n |-> at.n, st |-> at.st]

\* the target of a reference: this.dependencies[specifier] ?? this.asset,
\* indexed by the imported name
refTarget(L, ref) ==
    IF depBySource(L.deps, ref.specifier) # Nil
    THEN OMGet(depBySource(L.deps, ref.specifier).exports, ref.imported)
    ELSE OMGet(L.asset.exports, ref.imported)

\* the frame pushed on paramStack, with the linker state after computing it
bindParams(L, cur, key, ks, params, st) ==
    IF /\ cur.type \in {"alias", "interface"}
       /\ HasField(cur, "typeParameters")
       /\ st.app.on
       /\ shouldMerge(cur, key, ks)
    THEN [params |-> bindApplication(params, cur.typeParameters, st.app.v, 1),
          st |-> [st EXCEPT !.app = [on |-> FALSE, v |-> <<>>]]]
    ELSE IF /\ cur.type \in {"alias", "interface", "component"}
            /\ HasField(cur, "typeParameters")
            /\ ks = <<>>
    THEN [params |-> params, bind |-> TRUE,
          r |-> VisitSeq(L, cur.typeParameters, "typeParameters", ks, params, st)]
    ELSE [params |-> params, st |-> st]

\* the root-export frame: type parameters are bound to their constraints
frameOf(b) ==
    IF "bind" \in DOMAIN b
    THEN [params |-> bindConstraints(b.params, b.r.n, 1), st |-> b.r.st]
    ELSE b

\* an interface: store the merged form, return it or a link to it
finishInterface(cur, key, ks, st, merged) ==
    [n |-> IF shouldMerge(cur, key, ks) THEN merged ELSE Link(cur.id),
     st |-> [st EXCEPT !.nodes = saveNode(st.nodes, cur.id, merged)]]

\* the callback after `current = recurse(current)`
finish(L, cur, key, params, ks, st) ==
    IF cur.type = "application" /\ key = "props" THEN [n |-> cur.base, st |-> st]
    ELSE IF cur.type = "identifier" /\ cur.name = "Omit" /\ st.app.on
    THEN [n |-> performOmit(st.nodes, L.deps, st.app.v[1], st.app.v[2]), st |-> st]
    ELSE IF cur.type = "identifier" /\ OMGet(params, cur.name) # Nil
    THEN [n |-> OMGet(params, cur.name), st |-> st]
    ELSE IF cur.type = "interface"
    THEN finishInterface(cur, key, ks, st, mergeExtensions(cur))
    ELSE IF cur.type = "alias"
    THEN IF key = "props" THEN [n |-> cur.value, st |-> st]
         ELSE [n |-> Link(cur.id),
               st |-> [st EXCEPT !.nodes = saveNode(st.nodes, cur.id, cur)]]
    ELSE IF cur.type = "keyof" /\ cur.keyof.type = "interface"
    THEN [n |-> Union([i \in 1..Len(cur.keyof.properties) |-> Str(cur.keyof.properties[i].k)]),
          st |-> st]
    ELSE [n |-> cur, st |-> st]

\* an application that was recursed into clears the pending application
clearApp(rec) ==
    IF rec.n.type = "application" THEN [rec.st EXCEPT !.app = [on |-> FALSE, v |-> <<>>]] ELSE rec.st

\* application = recurse(current.typeParameters, 'typeParameters')
pendingApp(r) == [r.st EXCEPT !.app = [on |-> TRUE, v |-> r.n]]

\* the linker state once an application's type parameters are recursed into
appState(L, cur, ks, params, st) ==
    IF cur.type = "application"
    THEN pendingApp(VisitSeq(L, cur.typeParameters, "typeParameters", ks, params, st))
    ELSE st

\* the callback on a node: the frame is pushed, then keyStack.push(key);
\* current = recurse(current); keyStack.pop(), then the node is finished
visitNode(L, cur, key, ks, params, st) ==
    LET frame == frameOf(bindParams(L, cur, key, ks, params, appState(L, cur, ks, params, st)))
        rec == VisitFields(L, [n |-> cur, ks |-> Append(ks, key),
                               params |-> frame.params, st |-> frame.st])
    IN finish(L, rec.n, key, params, ks, clearApp(rec))

\* the callback processCode hands to walk; a reference is replaced by the
\* node it refers to, or by an identifier when it refers to none
Visit(L, cur0, key, ks, params, st) ==
    IF cur0 # Nil /\ (cur0.type = "reference" => refTarget(L, cur0) # Nil)
    THEN visitNode(L, IF cur0.type = "reference" THEN refTarget(L, cur0) ELSE cur0,
                   key, ks, params, st)
    ELSE [n |-> IF cur0 = Nil THEN Nil ELSE Ident(cur0.local), st |-> st]

RECURSIVE processCodeFrom(_, _)
\* the loop of walk over the exports; at is its state: the result so far,
\* the linker state and the exports still to visit
processCodeFrom(L, at) ==
    IF at.todo = <<>> THEN at
    ELSE LET r == Visit(L, Head(at.todo).v, "", <<>>, <<>>, at.st)
         IN processCodeFrom(L, [n |-> Append(at.n, [k |-> Head(at.todo).k, v |-> r.n]),
                                st |-> r.st, todo |-> Tail(at.todo)])

\* walk(obj, callback): res[k] = visit(obj[k]) for every export
processCode(L, obj, st) == processCodeFrom(L, [n |-> <<>>, st |-> st, todo |-> obj])


(***************************************************************************)
(* Linker.processAsset, _processAsset, getSymbolResolution                 *)
(***************************************************************************)
RECURSIVE getSymbolResolution(_, _, _)
\* over the dependencies, in order
getSymbolResolution(deps, asset, symbol) ==
    IF deps = <<>> THEN [asset |-> asset, exportSymbol |-> symbol]
    ELSE IF OMHas(Head(deps).symbols, symbol)
         THEN [asset |-> Head(deps), exportSymbol |-> OMGet(Head(deps).symbols, symbol)]
         ELSE getSymbolResolution(Tail(deps), asset, symbol)

\* {...node, name: exported}
RECURSIVE processAsset(_, _, _)
RECURSIVE symbolsLoop(_, _, _, _)
RECURSIVE wildcardLoop(_, _, _)

\* res after one symbol is assigned; p is the processed module the symbol
\* comes from
assignSymbol(res, exported, exportSymbol, processed) ==
    IF exportSymbol = "*" THEN OMAssign(res, processed)
    ELSE IF exportSymbol # exported
    THEN LET node == OMGet(processed, exportSymbol)
         IN OMSet(res, exported,
                  IF node = Nil THEN [name |-> exported, type |-> "undefined"]
                  ELSE IF HasField(node, "name") THEN [node EXCEPT !.name = exported]
                  ELSE [f \in DOMAIN node \cup {"name"} |->
                           IF f = "name" THEN exported ELSE node[f]])
    ELSE OMSet(res, exported, OMGet(processed, exportSymbol))

\* the state of a loop of _processAsset once `res` (the object this.cache
\* holds for the asset) has changed: res, the linker state and what the loop
\* has still to go through
withRes(asset, r, todo) ==
    [n |-> r.n, st |-> [r.st EXCEPT !.cache = OMSet(r.st.cache, asset.id, r.n)], todo |-> todo]

symbolStep(L, asset, obj, exported, r, res, st) ==
    IF r.asset.id = asset.id
    THEN [n |-> assignSymbol(res, exported, r.exportSymbol, obj), st |-> st]
    ELSE [n |-> r.exportSymbol, res |-> res, exported |-> exported,
          p |-> processAsset(L, r.asset, st)]

symbolDone(s) ==
    IF "p" \in DOMAIN s
    THEN [n |-> assignSymbol(s.res, s.exported, s.n, s.p.n), st |-> s.p.st]
    ELSE s

\* step 4 of _processAsset: for (const [local, exported] of asset.symbols)
symbolsLoop(L, asset, obj, at) ==
    IF at.todo = <<>> THEN at
    ELSE symbolsLoop(L, asset, obj,
             withRes(asset,
                     symbolDone(symbolStep(L, asset, obj, Head(at.todo).v,
                                    getSymbolResolution(L.deps, asset, Head(at.todo).k),
                                    at.n, at.st)),
                     Tail(at.todo)))

assignAll(res, p) == [n |-> OMAssign(res, p.n), st |-> p.st]

\* step 5 of _processAsset: copy the exports of every wildcard dependency
wildcardLoop(L, asset, at) ==
    IF at.todo = <<>> THEN [n |-> at.n, st |-> at.st]
    ELSE IF OMHas(Head(at.todo).symbols, "*") /\ OMGet(Head(at.todo).symbols, "*") = "*"
    THEN wildcardLoop(L, asset,
             withRes(asset, assignAll(at.n, processAsset(L, Head(at.todo), at.st)),
                     Tail(at.todo)))
    ELSE wildcardLoop(L, asset, [at EXCEPT !.todo = Tail(at.todo)])

\* _processAsset after processCode: Object.assign(res, obj), then step 4
linkSymbols(L, asset, code) ==
    symbolsLoop(L, asset, code.n, withRes(asset, code, asset.symbols))

processAsset(L, asset, st) ==
    IF OMHas(st.cache, asset.id) THEN [n |-> OMGet(st.cache, asset.id), st |-> st]
    ELSE wildcardLoop(L, asset,
             [linkSymbols(L, asset,
                  processCode(L, asset.exports,
                              [st EXCEPT !.cache = OMSet(st.cache, asset.id, <<>>)]))
                 EXCEPT !.todo = L.deps])

(***************************************************************************)
(* Linker.walkLinks and Linker.run                                         *)
(***************************************************************************)
saveLink(W, links, id) ==
    LET value == IF OMGet(W.nodes, id) # Nil THEN OMGet(W.nodes, id)
                 ELSE resolveLink(W.nodes, W.deps, id)
    IN IF value = Nil THEN links ELSE OMSet(links, id, value)

RECURSIVE walkLinksVisit(_, _, _)
RECURSIVE walkLinksFields(_, _, _)
RECURSIVE walkLinksSeq(_, _)

\* recurse(array): the callback runs on every item, in order. at is the
\* state of the loop: the links saved so far and the items still to visit.
walkLinksSeq(W, at) ==
    IF at.todo = <<>> THEN at.links
    ELSE walkLinksSeq(W, [links |-> walkLinksVisit(W, Head(at.todo), at.links),
                          todo |-> Tail(at.todo)])

\* recurse(node): the callback runs on every field of the node, in order
walkLinksFields(W, n, at) ==
    IF at.todo = <<>> THEN at.links
    ELSE walkLinksFields(W, n,
             [links |-> LET f == Head(at.todo)
                        IN IF f \in ArrayFields
                           THEN walkLinksSeq(W, [links |-> at.links, todo |-> n[f]])
                           ELSE IF f = "properties"
                           THEN walkLinksSeq(W, [links |-> at.links,
                                                 todo |-> [i \in 1..Len(n[f]) |-> n[f][i].v]])
                           ELSE walkLinksVisit(W, n[f], at.links),
              todo |-> Tail(at.todo)])

walkLinksVisit(W, t, links) ==
    IF t = Nil THEN links
    ELSE walkLinksFields(W, t,
             [links |-> IF t.type = "link" /\ OMGet(links, t.id) = Nil
                        THEN LET local == OMGet(W.nodes, t.id)
                             IN \* recurse(this.nodes[t.id])
                                IF local = Nil THEN saveLink(W, links, t.id)
                                ELSE walkLinksFields(W, local,
                                         [links |-> saveLink(W, links, t.id),
                                          todo |-> NodeFields(local)])
                        ELSE IF t.type \in {"property", "method"} /\ t.inheritedFrom # NoId
                        THEN saveLink(W, links, t.inheritedFrom)
                        ELSE links,
              todo |-> NodeFields(t)])

walkLinks(W, exports) ==
    walkLinksSeq(W, [links |-> <<>>, todo |-> [i \in 1..Len(exports) |-> exports[i].v]])

LinkerInit == [app |-> [on |-> FALSE, v |-> <<>>], nodes |-> <<>>, cache |-> <<>>]

linked(deps, r) ==
    [exports |-> r.n, links |-> walkLinks([nodes |-> r.st.nodes, deps |-> deps], r.n)]

\* new Linker(thisAsset, dependencies).run()
LinkerRun(asset, deps) ==
    linked(deps, processAsset([asset |-> asset, deps |-> deps], asset, LinkerInit))

(***************************************************************************)
(* Source files. A file is the sequence of its export statements; the      *)
(* declaration a statement exports is given as the node the transformer    *)
(* makes of its AST path (imported names are reference nodes, local types  *)
(* are inlined, unbound names are identifiers).                            *)
(***************************************************************************)
\* export interface Foo {}, export type Foo = ..., export const Foo = ...
DeclStmt(name, node) == [kind |-> "decl", name |-> name, node |-> node]
\* export {sourceName as name, ...} from "source"
NamedStmt(source, specs) == [kind |-> "named", source |-> source, specs |-> specs]
Spec1(name, sourceName) == [name |-> name, sourceName |-> sourceName]
\* export {localName as exportName, ...} is [kind |-> "local", specs |-> ...] with
\* specs of [localName, exportName, binding]; binding is Nil when the name is unbound
\* export * from "source"
WildStmt(source) == [kind |-> "wild", source |-> source]
\* import {names} from "source" is [kind |-> "import", source |-> ..., names |-> ...]

File(name, stmts) == [k |-> name, v |-> stmts]

BaseIface == Iface("base", "Base", <<>>, <<PropEntry("value", Num)>>, <<>>)
FooIface(file, prop) == Iface(file, "Foo", <<>>, <<PropEntry(prop, Num)>>, <<>>)

ProgramNames ==
    {"rename", "reexport", "localRename", "importRename", "wildMixed", "wildOwn",
     "wildNamed", "importCycle", "circularDecl", "exportCycle", "namedCycle",
     "inherit", "override", "defaultRef", "linkChain", "missing", "broken",
     "reexportEdited", "wildMixedEdited", "twoSources", "twoSourcesEdited"}

Files(p) ==
    CASE p = "rename" ->
           <<File("base", <<DeclStmt("Base", BaseIface)>>),
             File("index", <<NamedStmt("base", <<Spec1("Foo", "Base")>>)>>)>>
      [] p = "reexport" ->
           <<File("base", <<DeclStmt("Base", BaseIface)>>),
             File("index", <<NamedStmt("base", <<Spec1("Base", "Base")>>)>>)>>
      [] p = "reexportEdited" ->
           \* reexport after an edit of base: Base {changed: number}
           <<File("base", <<DeclStmt("Base", Iface("base", "Base", <<>>, <<PropEntry("changed", Num)>>, <<>>))>>),
             File("index", <<NamedStmt("base", <<Spec1("Base", "Base")>>)>>)>>
      [] p = "localRename" ->
           \* interface Foo {own}; export {Foo as Bar};
           <<File("index", <<[kind |-> "local",
                               specs |-> <<[localName |-> "Foo", exportName |-> "Bar",
                                            binding |-> FooIface("index", "own")]>>]>>)>>
      [] p = "importRename" ->
           \* import {Base} from "base"; export {Base as Foo};
           <<File("base", <<DeclStmt("Base", BaseIface)>>),
             File("index", <<[kind |-> "local",
                               specs |-> <<[localName |-> "Base", exportName |-> "Foo",
                                            binding |-> Ref("Base", "Base", "base")]>>]>>)>>
      [] p = "wildMixed" ->
           <<File("foo", <<DeclStmt("Foo", FooIface("foo", "own"))>>),
             File("barrel", <<NamedStmt("foo", <<Spec1("Foo", "Foo")>>)>>),
             File("index", <<WildStmt("barrel"), NamedStmt("barrel", <<Spec1("Bar", "Foo")>>)>>)>>
      [] p = "wildMixedEdited" ->
           \* wildMixed after an edit of foo: Foo {changed: number}
           <<File("foo", <<DeclStmt("Foo", FooIface("foo", "changed"))>>),
             File("barrel", <<NamedStmt("foo", <<Spec1("Foo", "Foo")>>)>>),
             File("index", <<WildStmt("barrel"), NamedStmt("barrel", <<Spec1("Bar", "Foo")>>)>>)>>
      [] p = "wildOwn" ->
           <<File("x", <<DeclStmt("Foo", FooIface("x", "theirs")), DeclStmt("Bar", Alias("x", "Bar", Num, <<>>))>>),
             File("index", <<DeclStmt("Foo", FooIface("index", "own")), WildStmt("x")>>)>>
      [] p = "wildNamed" ->
           <<File("x", <<DeclStmt("Foo", FooIface("x", "theirs"))>>),
             File("y", <<DeclStmt("Foo", FooIface("y", "own"))>>),
             File("index", <<NamedStmt("y", <<Spec1("Foo", "Foo")>>), WildStmt("x")>>)>>
      [] p = "twoSources" ->
           \* index: export {Foo} from "y"; export * from "x";
           <<File("x", <<DeclStmt("Bar", Alias("x", "Bar", Num, <<>>))>>),
             File("y", <<DeclStmt("Foo", FooIface("y", "own"))>>),
             File("index", <<NamedStmt("y", <<Spec1("Foo", "Foo")>>), WildStmt("x")>>)>>
      [] p = "twoSourcesEdited" ->
           \* twoSources after an edit of y: Foo {changed: number}
           <<File("x", <<DeclStmt("Bar", Alias("x", "Bar", Num, <<>>))>>),
             File("y", <<DeclStmt("Foo", FooIface("y", "changed"))>>),
             File("index", <<NamedStmt("y", <<Spec1("Foo", "Foo")>>), WildStmt("x")>>)>>
      [] p = "importCycle" ->
           <<File("a", <<DeclStmt("Foo", Iface("a", "Foo", <<>>, <<PropEntry("b", Ref("Bar", "Bar", "b"))>>, <<>>))>>),
             File("b", <<DeclStmt("Bar", Iface("b", "Bar", <<>>, <<PropEntry("a", Ref("Foo", "Foo", "a"))>>, <<>>))>>),
             File("index", <<NamedStmt("a", <<Spec1("Foo", "Foo")>>)>>)>>
      [] p = "circularDecl" ->
           \* foo: import {Bar} from "barrel"; export const Foo = Bar;
           \* bar: import {Foo} from "barrel"; export type Bar = Foo;
           <<File("foo", <<DeclStmt("Foo", Ref("Bar", "Bar", "barrel"))>>),
             File("bar", <<DeclStmt("Bar", Alias("bar", "Bar", Ref("Foo", "Foo", "barrel"), <<>>))>>),
             File("barrel", <<NamedStmt("foo", <<Spec1("Foo", "Foo")>>),
                              NamedStmt("bar", <<Spec1("Bar", "Bar")>>)>>),
             File("index", <<NamedStmt("barrel", <<Spec1("Foo", "Foo"), Spec1("Bar", "Bar")>>)>>)>>
      [] p = "exportCycle" ->
           <<File("a", <<DeclStmt("Foo", FooIface("a", "own")), WildStmt("b")>>),
             File("b", <<DeclStmt("Bar", Alias("b", "Bar", Num, <<>>)), WildStmt("a")>>)>>
      [] p = "namedCycle" ->
           <<File("a", <<NamedStmt("b", <<Spec1("Foo", "Foo")>>)>>),
             File("b", <<NamedStmt("a", <<Spec1("Foo", "Foo")>>)>>)>>
      [] p = "inherit" ->
           <<File("a", <<DeclStmt("Base", Iface("a", "Base", <<>>, <<PropEntry("a", Num)>>, <<>>))>>),
             File("b", <<DeclStmt("Bar", Iface("b", "Bar", <<Ref("Base", "Base", "a")>>,
                                              <<PropEntry("b", Num)>>, <<>>))>>),
             File("index", <<DeclStmt("Foo", Iface("index", "Foo", <<Ref("Bar", "Bar", "b")>>,
                                                  <<PropEntry("c", Num)>>, <<>>))>>)>>
      [] p = "override" ->
           \* interface Y {c}; interface X extends Y {b};
           \* export interface Foo extends X {c}
           <<File("index", <<DeclStmt("Foo", Iface("index", "Foo",
                 <<Iface("index", "X",
                         <<Iface("index", "Y", <<>>, <<PropEntry("c", Num)>>, <<>>)>>,
                         <<PropEntry("b", Num)>>, <<>>)>>,
                 <<PropEntry("c", Str("s"))>>, <<>>))>>)>>
      [] p = "defaultImport" ->
           \* index: import Foo from "foo"; export interface Bar {f: Foo}
           <<File("foo", <<DeclStmt("Foo", FooIface("foo", "own"))>>),
             File("index", <<DeclStmt("Bar", Iface("index", "Bar", <<>>,
                                                  <<PropEntry("f", Ref("Foo", "default", "foo"))>>, <<>>))>>)>>
      [] p = "namespaceImport" ->
           \* index: import * as ns from "foo"; export interface Bar {f: ns}
           <<File("foo", <<DeclStmt("Foo", FooIface("foo", "own"))>>),
             File("index", <<DeclStmt("Bar", Iface("index", "Bar", <<>>,
                                                  <<PropEntry("f", Ref("ns", "*", "foo"))>>, <<>>))>>)>>
      [] p = "defaultRef" ->
           \* export interface Foo extends Base<string> {}
           <<File("imp", <<DeclStmt("Imported", Iface("imp", "Imported", <<>>, <<>>, <<>>))>>),
           \* interface Base<T, U = Imported> {u: U}, with Imported imported from "imp"
             File("index", <<DeclStmt("Foo", Iface("index", "Foo",
                 <<App(Iface("index", "Base", <<>>,
                             <<PropEntry("u", Ident("U")), PropEntry("t", Ident("T"))>>,
                             <<TypeParam("T", Nil, Nil),
                               TypeParam("U", Nil, Ref("Imported", "Imported", "imp"))>>),
                       <<Str("s")>>)>>,
                 <<>>, <<>>))>>)>>
      [] p = "linkChain" ->
           <<File("qux", <<DeclStmt("Qux", Iface("qux", "Qux", <<>>, <<PropEntry("q", Num)>>, <<>>))>>),
             File("baz", <<DeclStmt("Baz", Iface("baz", "Baz", <<>>, <<PropEntry("q", Ref("Qux", "Qux", "qux"))>>, <<>>))>>),
             File("bar", <<DeclStmt("Bar", Iface("bar", "Bar", <<>>, <<PropEntry("z", Ref("Baz", "Baz", "baz"))>>, <<>>))>>),
             File("index", <<DeclStmt("Foo", Iface("index", "Foo", <<>>, <<PropEntry("b", Ref("Bar", "Bar", "bar"))>>, <<>>))>>)>>
      [] p = "missing" ->
           \* imports from, and a barrel that names, a file that does not exist
           <<File("foo", <<DeclStmt("Foo", FooIface("foo", "own"))>>),
             File("base", <<[kind |-> "import", source |-> "gone", names |-> <<"F">>],
                            DeclStmt("Base", BaseIface)>>),
             File("bar", <<[kind |-> "import", source |-> "gone", names |-> <<"Gone">>],
                           DeclStmt("Foo", FooIface("bar", "own")),
                           DeclStmt("Bar", Iface("bar", "Bar", <<>>, <<PropEntry("g", Ref("Gone", "Gone", "gone"))>>, <<>>))>>),
             File("index", <<NamedStmt("foo", <<Spec1("Foo", "Foo")>>),
                             NamedStmt("gone", <<Spec1("Bar", "Bar")>>)>>)>>
      [] p = "broken" ->
           \* x has a syntax error after its first declaration; user imports
           \* from it, barrel and index re-export from it
           <<File("x", <<DeclStmt("Foo", FooIface("x", "own")), [kind |-> "error"]>>),
             File("user", <<DeclStmt("Bar", Iface("user", "Bar", <<>>, <<PropEntry("f", Ref("Foo", "Foo", "x"))>>, <<>>))>>),
             File("barrel", <<DeclStmt("Base", BaseIface), NamedStmt("x", <<Spec1("Foo", "Foo")>>)>>),
             File("index", <<DeclStmt("Base", BaseIface), WildStmt("x")>>)>>

FileNames(p) == OMKeySet(Files(p))
\* the sources after `file` has been edited (p itself when the catalogue has no edit of it)
Edited(p, file) ==
    CASE p = "reexport" /\ file = "base" -> "reexportEdited"
      [] p = "wildMixed" /\ file = "foo" -> "wildMixedEdited"
      [] p = "twoSources" /\ file = "y" -> "twoSourcesEdited"
      [] OTHER -> p
\* load's requestedSymbols: undefined, or a list of names
AllSymbols == [all |-> TRUE, names |-> <<>>]
Symbols(names) == [all |-> FALSE, names |-> names]
Requests == {AllSymbols, Symbols(<<>>)} \cup {Symbols(<<n>>) : n \in {"Foo", "Bar", "Base"}}


(***************************************************************************)
(* Loader.gatherExports                                                    *)
(***************************************************************************)
SourceExport(name, sourceName, path, file) ==
    [type |-> "symbol", name |-> name, sourceName |-> sourceName, path |-> path,
     id |-> makeId(file, name)]

NoExports == [sourceExports |-> <<>>, externalExports |-> <<>>, wildcardExports |-> <<>>]

RECURSIVE gatherLocal(_, _, _)
\* export {Foo as Bar}: the entry is stored under the local name; an unbound
\* name ends the visit of the statement
gatherLocal(filePath, specs, sourceExports) ==
    IF specs = <<>> THEN sourceExports
    ELSE LET sp == Head(specs) IN
         IF sp.binding = Nil THEN sourceExports
         ELSE gatherLocal(filePath, Tail(specs),
                  OMSet(sourceExports, sp.localName,
                        SourceExport(sp.exportName, sp.localName, sp.binding, filePath)))

RECURSIVE gatherExternal(_, _, _)
gatherExternal(sourceFile, specs, externalExports) ==
    IF specs = <<>> THEN externalExports
    ELSE LET list == IF OMHas(externalExports, sourceFile)
                     THEN OMGet(externalExports, sourceFile) ELSE <<>>
             entry == [type |-> "external", name |-> Head(specs).name,
                       sourceName |-> Head(specs).sourceName, sourceFile |-> sourceFile]
         IN gatherExternal(sourceFile, Tail(specs),
                           OMSet(externalExports, sourceFile, Append(list, entry)))

RECURSIVE gatherFrom(_, _, _)
gatherFrom(filePath, stmts, acc) ==
    IF stmts = <<>> THEN acc
    ELSE LET s == Head(stmts)
             acc1 ==
                 CASE s.kind = "named" ->
                        [acc EXCEPT !.externalExports = gatherExternal(s.source, s.specs, @)]
                   [] s.kind = "decl" ->
                        [acc EXCEPT !.sourceExports =
                             OMSet(@, s.name, SourceExport(s.name, s.name, s.node, filePath))]
                   [] s.kind = "local" ->
                        [acc EXCEPT !.sourceExports = gatherLocal(filePath, s.specs, @)]
                   [] s.kind = "wild" ->
                        [acc EXCEPT !.wildcardExports =
                             Append(@, [type |-> "wildcard", sourceFile |-> s.source])]
                   \* no visitor for import declarations
                   [] s.kind = "import" -> acc
         IN gatherFrom(filePath, Tail(stmts), acc1)

\* parse: babel.parse throws on a file that does not exist or has a syntax error
parses(files, filePath) ==
    /\ OMHas(files, filePath)
    /\ \A i \in 1..Len(OMGet(files, filePath)) : OMGet(files, filePath)[i].kind # "error"

\* a gathering that reads the statements around a syntax error
gatherUnparsed(files, filePath) ==
    IF ~OMHas(files, filePath) THEN NoExports
    ELSE gatherFrom(filePath, SelectSeq(OMGet(files, filePath), LAMBDA s : s.kind # "error"),
                    NoExports)

\* a file that cannot be read or parsed is treated as an empty file
gatherExports(files, filePath) ==
    IF ~parses(files, filePath) THEN NoExports
    ELSE gatherFrom(filePath, OMGet(files, filePath), NoExports)

(***************************************************************************)
(* Transformer.dependencies: the imports the processed exports refer to,   *)
(* aggregated by specifier                                                 *)
(***************************************************************************)
RECURSIVE RefsOf(_)
RECURSIVE RefsOfSeq(_)
RECURSIVE RefsOfFields(_, _)
RefsOfSeq(items) ==
    IF items = <<>> THEN <<>> ELSE RefsOf(Head(items)) \o RefsOfSeq(Tail(items))
RefsOfFields(n, fields) ==
    IF fields = <<>> THEN <<>>
    ELSE LET f == Head(fields)
             here == IF f \in ArrayFields THEN RefsOfSeq(n[f])
                     ELSE IF f = "properties"
                     THEN RefsOfSeq([i \in 1..Len(n[f]) |-> n[f][i].v])
                     ELSE RefsOf(n[f])
         IN here \o RefsOfFields(n, Tail(fields))
RefsOf(n) ==
    IF n = Nil THEN <<>>
    ELSE IF n.type = "reference" THEN <<n>>
    ELSE IF n.type = "interface"
    THEN RefsOfFields(n, <<"properties", "extends", "typeParameters">>)
    ELSE RefsOfFields(n, NodeFields(n))

RECURSIVE addDependencies(_, _)
addDependencies(deps, refs) ==
    IF refs = <<>> THEN deps
    ELSE LET ref == Head(refs)
             old == IF OMHas(deps, ref.specifier) THEN OMGet(deps, ref.specifier) ELSE <<>>
             known == \E i \in 1..Len(old) : old[i].localName = ref.local
             import == [type |-> IF ref.imported = "*" THEN "namespace"
                                 ELSE IF ref.imported = "default" THEN "default" ELSE "symbol",
                        localName |-> ref.local, sourceName |-> ref.imported]
             new == IF known THEN old ELSE Append(old, import)
         IN addDependencies(OMSet(deps, ref.specifier, new), Tail(refs))

(***************************************************************************)
(* LoaderCache                                                             *)
(***************************************************************************)
EmptyCache == [astCache |-> {}, exportCache |-> <<>>, symbolCache |-> <<>>]

getExportsFromFile(c, filePath) == OMGet(c.exportCache, filePath)
setExportsFromFile(c, filePath, symbolMap) ==
    [c EXCEPT !.exportCache = OMSet(@, filePath, symbolMap)]
setAST(c, filePath) == [c EXCEPT !.astCache = @ \cup {filePath}]

\* symbolCache is a Map whose keys are NodeId objects, and a Map compares
\* object keys by identity. util.makeId and util.parseId make a new object on
\* every call: makeId(file, symbol) stands for the object an export map holds
\* as the id of file:symbol, NodeIdCopy for another object with the same file
\* and symbol, made by the call of makeId that `by` names.
NodeIdCopy(by, file, symbol) == [file |-> file, symbol |-> symbol, by |-> by]

\* this.symbolCache.delete(util.makeId(filePath, symbol))
deleteSymbol(c, filePath, symbol) ==
    [c EXCEPT !.symbolCache = OMRemove(@, {NodeIdCopy("deleteSymbol", filePath, symbol)})]

\* nothing in the loader stores into symbolCache (the write in _loadExports is disabled)
getCachedSymbol(c, nodeId) == OMGet(c.symbolCache, nodeId)

RECURSIVE lookupSymbols(_, _, _, _)
lookupSymbols(c, exportMap, symbols, acc) ==
    IF symbols = <<>> THEN acc
    ELSE LET symbol == Head(symbols)
             exported == OMGet(exportMap, symbol)
             value == IF exported = Nil THEN Nil ELSE getCachedSymbol(c, exported.id)
         IN lookupSymbols(c, exportMap, Tail(symbols),
                IF value = Nil THEN [acc EXCEPT !.unfound = Append(@, symbol)]
                ELSE [acc EXCEPT !.found = OMSet(@, symbol, value)])

\* unfound is [known: FALSE] for undefined
getCachedSymbolsFromFile(c, filePath, symbols) ==
    IF ~OMHas(c.exportCache, filePath)
    THEN [found |-> <<>>, known |-> ~symbols.all, unfound |-> symbols.names]
    ELSE LET \* Object.keys(exportMap) of a Map has no entries
             requestedSymbols == IF symbols.all THEN <<>> ELSE symbols.names
             r == lookupSymbols(c, getExportsFromFile(c, filePath), requestedSymbols,
                                [found |-> <<>>, unfound |-> <<>>])
         IN [found |-> r.found, known |-> TRUE, unfound |-> r.unfound]

\* a deletion that leaves the symbol cache as it is
keepSymbols(c, filePath) == c

deleteSymbolsFromFile(c, filePath) ==
    [c EXCEPT !.symbolCache = SelectSeq(@, LAMBDA e : e.k.file # filePath)]

invalidateFile(c, filePath) ==
    LET c1 == [c EXCEPT !.exportCache = OMRemove(@, {filePath})]
        c2 == deleteSymbolsFromFile(c1, filePath)
    IN [c2 EXCEPT !.astCache = @ \ {filePath}]


(***************************************************************************)
(* Loader: the synchronous parts of load                                   *)
(***************************************************************************)
RECURSIVE cachedExports(_)
cachedExports(found) ==
    IF found = <<>> THEN <<>>
    ELSE <<[k |-> Head(found).k, v |-> Head(found).v.node]>> \o cachedExports(Tail(found))

RECURSIVE cachedLinkIds(_)
cachedLinkIds(found) ==
    IF found = <<>> THEN <<>> ELSE Head(found).v.linkIds \o cachedLinkIds(Tail(found))

RECURSIVE searchLinks(_, _, _)
searchLinks(c, ids, acc) ==
    IF ids = <<>> THEN acc
    ELSE LET cached == getCachedSymbol(c, Head(ids))
         IN searchLinks(c, Tail(ids),
                IF cached # Nil THEN [acc EXCEPT !.links = OMSet(@, makeIdString(Head(ids).file, Head(ids).symbol), cached.node)]
                ELSE [acc EXCEPT !.unfoundLinks = Append(@, Head(ids))])

loadCachedSymbols(c, filePath, symbols) ==
    LET r == getCachedSymbolsFromFile(c, filePath, symbols)
        l == searchLinks(c, cachedLinkIds(r.found), [links |-> <<>>, unfoundLinks |-> <<>>])
    IN [exports |-> cachedExports(r.found), links |-> l.links,
        known |-> r.known, unfoundSymbols |-> r.unfound, unfoundLinks |-> l.unfoundLinks]


RECURSIVE neededFrom(_, _)
neededFrom(sourceExports, symbols) ==
    IF symbols = <<>> THEN <<>>
    ELSE LET exported == OMGet(sourceExports, Head(symbols))
         IN (IF exported = Nil THEN <<>> ELSE <<exported>>)
            \o neededFrom(sourceExports, Tail(symbols))

\* a selection that ignores the request and takes every export of the file
determineEveryExport(sourceExports, requestedSymbols, known, unfoundSymbols) ==
    neededFrom(sourceExports, OMKeys(sourceExports))

\* the part of determineNeededExports after buildExportGraph has returned
determineNeededExports(sourceExports, requestedSymbols, known, unfoundSymbols) ==
    LET unfound == IF known THEN unfoundSymbols
                   ELSE SelectSeq(OMKeys(sourceExports),
                                  LAMBDA symbol : requestedSymbols.all
                                                  \/ \E i \in 1..Len(requestedSymbols.names) :
                                                         requestedSymbols.names[i] = symbol)
    IN neededFrom(sourceExports, unfound)

RECURSIVE groupByFile(_, _)
\* util.groupBy(neededExports, (source) => source.id.file)
groupByFile(neededExports, acc) ==
    IF neededExports = <<>> THEN acc
    ELSE LET key == Head(neededExports).id.file
             old == IF OMHas(acc, key) THEN OMGet(acc, key) ELSE <<>>
         IN groupByFile(Tail(neededExports), OMSet(acc, key, Append(old, Head(neededExports))))

RECURSIVE processExportsFrom(_, _)
processExportsFrom(requestedExports, acc) ==
    IF requestedExports = <<>> THEN acc
    ELSE LET exp == Head(requestedExports)
         IN processExportsFrom(Tail(requestedExports),
                [acc EXCEPT !.exportedNodes = OMSet(@, exp.name, exp.path),
                            !.symbols = OMSet(@, exp.name, exp.name)])

\* importDependencies is a sequence of [source, symbols]
processExports(filePath, requestedExports) ==
    LET r == processExportsFrom(requestedExports, [exportedNodes |-> <<>>, symbols |-> <<>>])
        d == addDependencies(<<>>, RefsOfSeq([i \in 1..Len(r.exportedNodes) |->
                                                  r.exportedNodes[i].v]))
    IN [exportedNodes |-> r.exportedNodes, symbols |-> r.symbols,
        importDependencies |-> [i \in 1..Len(d) |-> [source |-> d[i].k, symbols |-> d[i].v]]]

\* a host whose resolve returns every specifier as it is
resolvesAnything(files, specifier) == TRUE

\* host.resolve: the specifier names a file, or the call throws
canResolve(files, specifier) == OMHas(files, specifier)
resolve(files, specifier) == specifier

RECURSIVE putAsset(_, _)
\* resolvedDependencies[dependency.source] = asset
putAsset(resolved, asset) ==
    IF resolved = <<>> THEN <<asset>>
    ELSE IF Head(resolved).source = asset.source THEN <<asset>> \o Tail(resolved)
         ELSE <<Head(resolved)>> \o putAsset(Tail(resolved), asset)

\* a build that dropped the named re-exports
applyExternalSkip(sourceExports, gathered, exports) == sourceExports

RECURSIVE applyExternal(_, _, _)
\* sourceExports.set(exported.name, {...source, name: exported.name})
applyExternal(sourceExports, gathered, exports) ==
    IF exports = <<>> THEN sourceExports
    ELSE LET exported == Head(exports)
             source == OMGet(gathered, exported.sourceName)
         IN applyExternal(IF source = Nil THEN sourceExports
                          ELSE OMSet(sourceExports, exported.name,
                                     [source EXCEPT !.name = exported.name]),
                          gathered, Tail(exports))


(***************************************************************************)
(* The loader as a state machine. Every async call is a frame on `stack`;  *)
(* the innermost frame runs up to its next await. A call that throws       *)
(* rejects every pending call (nothing in the chain catches).              *)
(***************************************************************************)
MaxDepth == 8
MaxLoads == 2

LoadFrame(file, req) ==
    [op |-> "load", file |-> file, req |-> req, pc |-> "start",
     exports |-> <<>>, links |-> <<>>, known |-> FALSE, unfound |-> <<>>, groups |-> <<>>]
BegFrame(file) ==
    [op |-> "beg", file |-> file, pc |-> "start",
     sourceExports |-> <<>>, externalExports |-> <<>>, wildcardExports |-> <<>>]

Running == status = "running" /\ stack # <<>>
Top == stack[Len(stack)]
CanPush == Len(stack) < MaxDepth
WithTop(f) == [stack EXCEPT ![Len(stack)] = f]
Popped == SubSeq(stack, 1, Len(stack) - 1)

\* the innermost call resolves with `value`
Return(value) ==
    /\ stack' = Popped
    /\ ret' = value
    /\ status' = IF Len(stack) = 1 THEN "done" ELSE status
    /\ result' = IF Len(stack) = 1 THEN value ELSE result

\* the innermost call rejects, and so does every caller
Throw ==
    /\ stack' = <<>>
    /\ ret' = Nil
    /\ status' = "error"
    /\ result' = Nil

\* the host makes a Loader over the shared cache and calls load; when the
\* previous request was for the same file, with the same symbols or with one
\* of the two asking for all of them, or when it gave this file's load a stub,
\* evIn keeps what it asked and returned, what happened since (evOut: the file
\* last given a stub, or that a file was invalidated after the request) and
\* whether the cache is empty now
StartLoad(file, req) ==
    /\ status # "running"
    /\ loads < MaxLoads
    /\ stack' = <<LoadFrame(file, req)>>
    /\ status' = "running"
    /\ request' = [file |-> file, req |-> req]
    /\ loads' = loads + 1
    /\ ret' = Nil
    /\ result' = Nil
    /\ inProgress' = {}
    /\ evIn' = IF /\ status = "done"
                  /\ \/ /\ request.file = file
                        /\ (request.req = req \/ request.req.all \/ req.all)
                     \/ evOut = [op |-> "stub", file |-> file]
               THEN [op |-> IF request.file = file THEN "again" ELSE "other",
                     request |-> request, result |-> result,
                     between |-> evOut, cold |-> cache = EmptyCache]
               ELSE Nil
    /\ evOut' = Nil
    /\ UNCHANGED <<prog, cache>>

\* the host invalidates a file between two requests
InvalidateFile(file) ==
    /\ status # "running"
    /\ cache' = invalidateFile(cache, file)
    /\ evOut' = IF loads = 0 THEN Nil ELSE [op |-> "invalidate"]
    /\ UNCHANGED <<prog, inProgress, stack, ret, status, result, request, loads, evIn>>

\* a source file changes and the watcher's invalid hook invalidates it:
\* between two requests, or while the load is suspended in parse at
\* host.getSource of another file (evOut then names the file)
SourceChanged(file) ==
    /\ \/ status # "running"
       \/ /\ Running /\ Top.op = "beg" /\ Top.pc = "start"
          /\ ~OMHas(cache.exportCache, Top.file)
          /\ Top.file \notin cache.astCache
          /\ Top.file # file
    /\ Edited(prog, file) # prog
    /\ prog' = Edited(prog, file)
    /\ cache' = invalidateFile(cache, file)
    /\ evOut' = IF loads = 0 THEN Nil
               ELSE IF status = "running" THEN [op |-> "invalidate", file |-> file]
               ELSE [op |-> "invalidate"]
    /\ UNCHANGED <<inProgress, stack, ret, status, result, request, loads, evIn>>

\* load, steps 1 and 2: everything was found in the cache
LoadCached ==
    /\ Running /\ Top.op = "load" /\ Top.pc = "start"
    /\ LET c == loadCachedSymbols(cache, Top.file, Top.req)
       IN /\ c.known /\ Len(c.unfoundSymbols) = 0 /\ Len(c.unfoundLinks) = 0
          /\ Return([exports |-> c.exports, links |-> c.links])
    /\ inProgress' = inProgress \cup {Top.file}
    /\ UNCHANGED <<prog, cache, request, loads, evIn, evOut>>

\* load, steps 1 to 3a: determineNeededExports calls buildExportGraph
LoadDetermine ==
    /\ Running /\ Top.op = "load" /\ Top.pc = "start" /\ CanPush
    /\ LET c == loadCachedSymbols(cache, Top.file, Top.req)
       IN /\ ~(c.known /\ Len(c.unfoundSymbols) = 0 /\ Len(c.unfoundLinks) = 0)
          /\ stack' = Append(WithTop([Top EXCEPT !.pc = "graph", !.exports = c.exports,
                                                 !.links = c.links, !.known = c.known,
                                                 !.unfound = c.unfoundSymbols]),
                             BegFrame(Top.file))
    /\ inProgress' = inProgress \cup {Top.file}
    /\ UNCHANGED <<prog, cache, ret, status, result, request, loads, evIn, evOut>>

\* buildExportGraph has returned: the needed exports, grouped by file
LoadNeeded ==
    /\ Running /\ Top.op = "load" /\ Top.pc = "graph"
    /\ LET needed == determineNeededExports(ret, Top.req, Top.known, Top.unfound)
       IN stack' = WithTop([Top EXCEPT !.pc = "groups", !.groups = groupByFile(needed, <<>>)])
    /\ ret' = Nil
    /\ UNCHANGED <<prog, cache, inProgress, status, result, request, loads, evIn, evOut>>

\* load, step 3b: _loadExports(file, exported) up to its first await
LoadGroup ==
    /\ Running /\ Top.op = "load" /\ Top.pc = "groups" /\ Top.groups # <<>> /\ CanPush
    /\ LET g == Head(Top.groups)
           r == processExports(g.k, g.v)
       IN stack' = Append(WithTop([Top EXCEPT !.pc = "group_ret"]),
                          [op |-> "le", file |-> g.k, pc |-> "deps",
                           exportedNodes |-> r.exportedNodes, symbols |-> r.symbols,
                           deps |-> r.importDependencies, resolved |-> <<>>])
    /\ UNCHANGED <<prog, cache, inProgress, ret, status, result, request, loads, evIn, evOut>>

LoadGroupRet ==
    /\ Running /\ Top.op = "load" /\ Top.pc = "group_ret"
    /\ stack' = WithTop([Top EXCEPT !.pc = "groups", !.groups = Tail(@),
                                    !.exports = OMAssign(@, ret.exports),
                                    !.links = OMAssign(@, ret.links)])
    /\ ret' = Nil
    /\ UNCHANGED <<prog, cache, inProgress, status, result, request, loads, evIn, evOut>>

\* load, step 5
LoadDone ==
    /\ Running /\ Top.op = "load" /\ Top.pc = "groups" /\ Top.groups = <<>>
    /\ inProgress' = inProgress \ {Top.file}
    /\ Return([exports |-> Top.exports, links |-> Top.links])
    /\ UNCHANGED <<prog, cache, request, loads, evIn, evOut>>


\* buildExportGraph: the export map of the file is cached
BegCached ==
    /\ Running /\ Top.op = "beg" /\ Top.pc = "start"
    /\ OMHas(cache.exportCache, Top.file)
    /\ Return(getExportsFromFile(cache, Top.file))
    /\ UNCHANGED <<prog, cache, inProgress, request, loads, evIn, evOut>>

\* buildExportGraph: gatherExports (which parses the file) and the seeding
\* of the map with the file's own exports
BegGather ==
    /\ Running /\ Top.op = "beg" /\ Top.pc = "start"
    /\ ~OMHas(cache.exportCache, Top.file)
    /\ LET g == gatherExports(Files(prog), Top.file)
       IN stack' = WithTop([Top EXCEPT !.pc = "loop",
                                       !.sourceExports = OMAssign(<<>>, g.sourceExports),
                                       !.externalExports = g.externalExports,
                                       !.wildcardExports = g.wildcardExports])
    /\ cache' = IF parses(Files(prog), Top.file) THEN setAST(cache, Top.file) ELSE cache
    /\ UNCHANGED <<prog, inProgress, ret, status, result, request, loads, evIn, evOut>>

\* the next `export {...} from`: resolve it and recurse
BegExternal ==
    /\ Running /\ Top.op = "beg" /\ Top.pc = "loop" /\ Top.externalExports # <<>> /\ CanPush
    /\ canResolve(Files(prog), Head(Top.externalExports).k)
    /\ stack' = Append(WithTop([Top EXCEPT !.pc = "external_ret"]),
                       BegFrame(resolve(Files(prog), Head(Top.externalExports).k)))
    /\ UNCHANGED <<prog, cache, inProgress, ret, status, result, request, loads, evIn, evOut>>

BegExternalRet ==
    /\ Running /\ Top.op = "beg" /\ Top.pc = "external_ret"
    /\ stack' = WithTop([Top EXCEPT !.pc = "loop", !.externalExports = Tail(@),
                            !.sourceExports = applyExternal(@, ret, Head(Top.externalExports).v)])
    /\ ret' = Nil
    /\ UNCHANGED <<prog, cache, inProgress, status, result, request, loads, evIn, evOut>>

\* the next `export * from`: resolve it and recurse
BegWildcard ==
    /\ Running /\ Top.op = "beg" /\ Top.pc = "loop" /\ Top.externalExports = <<>>
    /\ Top.wildcardExports # <<>> /\ CanPush
    /\ canResolve(Files(prog), Head(Top.wildcardExports).sourceFile)
    /\ stack' = Append(WithTop([Top EXCEPT !.pc = "wildcard_ret"]),
                       BegFrame(resolve(Files(prog), Head(Top.wildcardExports).sourceFile)))
    /\ UNCHANGED <<prog, cache, inProgress, ret, status, result, request, loads, evIn, evOut>>

\* for (const [name, source] of dependencyExports) sourceExports.set(name, source)
BegWildcardRet ==
    /\ Running /\ Top.op = "beg" /\ Top.pc = "wildcard_ret"
    /\ stack' = WithTop([Top EXCEPT !.pc = "loop", !.wildcardExports = Tail(@),
                                    !.sourceExports = OMAssign(@, ret)])
    /\ ret' = Nil
    /\ UNCHANGED <<prog, cache, inProgress, status, result, request, loads, evIn, evOut>>

\* host.resolve throws inside buildExportGraph
BegResolveFails ==
    /\ Running /\ Top.op = "beg" /\ Top.pc = "loop"
    /\ \/ /\ Top.externalExports # <<>>
          /\ ~canResolve(Files(prog), Head(Top.externalExports).k)
       \/ /\ Top.externalExports = <<>> /\ Top.wildcardExports # <<>>
          /\ ~canResolve(Files(prog), Head(Top.wildcardExports).sourceFile)
    /\ Throw
    /\ UNCHANGED <<prog, cache, inProgress, request, loads, evIn, evOut>>

BegDone ==
    /\ Running /\ Top.op = "beg" /\ Top.pc = "loop"
    /\ Top.externalExports = <<>> /\ Top.wildcardExports = <<>>
    /\ cache' = setExportsFromFile(cache, Top.file, Top.sourceExports)
    /\ Return(Top.sourceExports)
    /\ UNCHANGED <<prog, inProgress, request, loads, evIn, evOut>>

\* recurseImportedDependencies: the dependency is already being loaded
LeDepStub ==
    /\ Running /\ Top.op = "le" /\ Top.pc = "deps" /\ Top.deps # <<>>
    /\ LET d == Head(Top.deps) IN
       /\ canResolve(Files(prog), d.source)
       /\ resolve(Files(prog), d.source) \in inProgress
       /\ stack' = WithTop([Top EXCEPT !.deps = Tail(@),
               !.resolved = putAsset(@, [source |-> d.source, id |-> resolve(Files(prog), d.source),
                                exports |-> <<>>, links |-> <<>>, symbols |-> <<>>])])
       /\ evOut' = [op |-> "stub", file |-> resolve(Files(prog), d.source)]
    /\ UNCHANGED <<prog, cache, inProgress, ret, status, result, request, loads, evIn>>

\* recurseImportedDependencies: load(resolvedPath, requestedSymbols), with
\* every symbol when a namespace is imported, else the imports of type symbol
LeDepLoad ==
    /\ Running /\ Top.op = "le" /\ Top.pc = "deps" /\ Top.deps # <<>> /\ CanPush
    /\ LET d == Head(Top.deps)
           syms == SelectSeq(d.symbols, LAMBDA imp : imp.type = "symbol")
           requestedSymbols ==
               IF \E i \in 1..Len(d.symbols) : d.symbols[i].type = "namespace"
               THEN AllSymbols
               ELSE Symbols([i \in 1..Len(syms) |-> syms[i].sourceName])
       IN
       /\ canResolve(Files(prog), d.source)
       /\ resolve(Files(prog), d.source) \notin inProgress
       /\ stack' = Append(WithTop([Top EXCEPT !.pc = "dep_ret"]),
                          LoadFrame(resolve(Files(prog), d.source), requestedSymbols))
    /\ UNCHANGED <<prog, cache, inProgress, ret, status, result, request, loads, evIn, evOut>>

LeDepRet ==
    /\ Running /\ Top.op = "le" /\ Top.pc = "dep_ret"
    /\ LET d == Head(Top.deps)
           entry(imp) == [k |-> imp.localName,
                          v |-> IF imp.type = "namespace" THEN "*"
                                ELSE IF imp.type = "default" THEN "@default"
                                ELSE imp.sourceName]
           depSymbols == OMAssign(<<>>, [i \in 1..Len(d.symbols) |-> entry(d.symbols[i])])
           asset == [source |-> d.source, id |-> resolve(Files(prog), d.source),
                     exports |-> ret.exports, links |-> ret.links, symbols |-> depSymbols]
       IN stack' = WithTop([Top EXCEPT !.pc = "deps", !.deps = Tail(@),
                                       !.resolved = putAsset(@, asset)])
    /\ ret' = Nil
    /\ UNCHANGED <<prog, cache, inProgress, status, result, request, loads, evIn, evOut>>

\* host.resolve throws inside recurseImportedDependencies
LeResolveFails ==
    /\ Running /\ Top.op = "le" /\ Top.pc = "deps" /\ Top.deps # <<>>
    /\ ~canResolve(Files(prog), Head(Top.deps).source)
    /\ Throw
    /\ UNCHANGED <<prog, cache, inProgress, request, loads, evIn, evOut>>

\* _loadExports: every dependency is loaded, the linker runs
LeLink ==
    /\ Running /\ Top.op = "le" /\ Top.pc = "deps" /\ Top.deps = <<>>
    /\ Return(LinkerRun([id |-> Top.file, exports |-> Top.exportedNodes,
                          symbols |-> Top.symbols, links |-> <<>>], Top.resolved))
    /\ UNCHANGED <<prog, cache, inProgress, request, loads, evIn, evOut>>

Init ==
    /\ prog \in ProgramNames
    /\ cache = EmptyCache
    /\ inProgress = {}
    /\ stack = <<>>
    /\ ret = Nil
    /\ status = "idle"
    /\ result = Nil
    /\ request = Nil
    /\ loads = 0
    /\ evIn = Nil
    /\ evOut = Nil

Next ==
    \/ \E file \in FileNames(prog), req \in Requests : StartLoad(file, req)
    \/ \E file \in FileNames(prog) : InvalidateFile(file)
    \/ \E file \in FileNames(prog) : SourceChanged(file)
    \/ LoadCached
    \/ LoadDetermine
    \/ LoadNeeded
    \/ LoadGroup
    \/ LoadGroupRet
    \/ LoadDone
    \/ BegCached
    \/ BegGather
    \/ BegExternal
    \/ BegExternalRet
    \/ BegWildcard
    \/ BegWildcardRet
    \/ BegResolveFails
    \/ BegDone
    \/ LeDepStub
    \/ LeDepLoad
    \/ LeDepRet
    \/ LeResolveFails
    \/ LeLink

Spec == Init /\ [][Next]_vars


(***************************************************************************)
(* The evaluator on its own: the linker run on one generated interface     *)
(* hierarchy, and performOmit on generated Omit<T, K> arguments.           *)
(***************************************************************************)
MaxOwn == 2
MaxUnion == 2

\* interface C extends B, B extends A (chain), or C extends A, B (fork), as
\* `extends A` and as `extends A<>`; every interface declares up to MaxOwn
\* properties of distinct names, in source order
FlattenInputs ==
    LET OwnProps(owner) ==
            {[i \in DOMAIN s |-> PropEntry(s[i], Str(owner))] :
                s \in {t \in UNION {[1..n -> {"a", "b", "c"}] : n \in 0..MaxOwn} :
                          \A i, j \in DOMAIN t : i # j => t[i] # t[j]}}
        Wrap(w, n) == IF w = "app" THEN App(n, <<>>) ELSE n
        Hierarchy(shape, w, pa, pb, pc) ==
            IF shape = "chain"
            THEN Iface("f", "C", <<Wrap(w, Iface("f", "B", <<Wrap(w, Iface("f", "A", <<>>, pa, <<>>))>>,
                                                 pb, <<>>))>>, pc, <<>>)
            ELSE Iface("f", "C", <<Wrap(w, Iface("f", "A", <<>>, pa, <<>>)),
                                   Wrap(w, Iface("f", "B", <<>>, pb, <<>>))>>, pc, <<>>)
    IN {[op |-> "flatten", iface |-> Hierarchy(shape, w, pa, pb, pc)] :
           shape \in {"chain", "fork"}, w \in {"plain", "app"},
           pa \in OwnProps("A"), pb \in OwnProps("B"), pc \in OwnProps("C")}

\* the Omit test's interface and alias
OmitFoo ==
    Iface("f", "Foo", <<>>,
          <<PropEntry("foo", Num), PropEntry("bar", Num), PropEntry("onChange", Num),
            PropEntry("onClick", Num), PropEntry("style", Num)>>, <<>>)
Handlers == Alias("f", "Handlers", Union(<<Str("onChange"), Str("onClick")>>), <<>>)
EvalNodes == <<[k |-> "f:Foo", v |-> OmitFoo], [k |-> "f:Handlers", v |-> Handlers]>>
\* Omit<T, K> for T that is or names Foo, and K a key, an alias or link for
\* keys, or a union of up to MaxUnion of those
OmitInputs ==
    LET OmitElements ==
            {Str(OmitFoo.properties[i].k) : i \in 1..Len(OmitFoo.properties)}
                \cup {Handlers, Link("f:Handlers"), Union(<<Str("foo"), Str("bar")>>)}
        OmitKeys ==
            {Str(OmitFoo.properties[i].k) : i \in 1..Len(OmitFoo.properties)}
                \cup {Union(s) : s \in UNION {[1..n -> OmitElements] : n \in 0..MaxUnion}}
                \cup {Handlers, Link("f:Handlers")}
    IN {[op |-> "omit", base |-> t, toOmit |-> k] :
           t \in {OmitFoo, Link("f:Foo"), Link("g:Foo"), App(OmitFoo, <<>>),
                  Alias("f", "FooAlias", OmitFoo, <<>>), Alias("f", "FooLink", Link("f:Foo"), <<>>)},
           k \in OmitKeys}

\* the export C that reaches Base<args>: `interface C extends Base<args> {c: T}`,
\* a component whose props are Base<args>, or `interface C {p: Base<args>}`, with
\*   interface G<T = number> {g: T}
\*   interface Base<T, U = "d"> extends ... {a: T; b: U; n: number; u: T | "x"}
\* where Base extends nothing, `G`, `G<"own">` or `G<T>`
ApplyInputs ==
    LET G == Iface("f", "G", <<>>, <<PropEntry("g", Ident("T"))>>, <<TypeParam("T", Nil, Num)>>)
        Extends(grand) ==
            CASE grand = "none" -> <<>>
              [] grand = "plain" -> <<G>>
              [] grand = "applied" -> <<App(G, <<Str("own")>>)>>
              [] grand = "passed" -> <<App(G, <<Ident("T")>>)>>
        Base(grand) ==
            Iface("f", "Base", Extends(grand),
                  <<PropEntry("a", Ident("T")), PropEntry("b", Ident("U")), PropEntry("n", Num),
                    PropEntry("u", Union(<<Ident("T"), Str("x")>>))>>,
                  <<TypeParam("T", Nil, Nil), TypeParam("U", Nil, Str("d"))>>)
        Root(site, base, args) ==
            CASE site = "extends" ->
                     Iface("f", "C", <<App(base, args)>>, <<PropEntry("c", Ident("T"))>>, <<>>)
              [] site = "props" ->
                     [type |-> "component", id |-> makeIdString("f", "C"), name |-> "C",
                      props |-> App(base, args), typeParameters |-> <<>>]
              [] site = "value" ->
                     Iface("f", "C", <<>>, <<PropEntry("p", App(base, args))>>, <<>>)
    IN {[op |-> "apply", site |-> site, grand |-> grand, args |-> args,
         root |-> Root(site, Base(grand), args)] :
           site \in {"extends", "props", "value"},
           grand \in {"none", "plain", "applied", "passed"},
           args \in {<<>>, <<Str("s")>>, <<Str("s"), Num>>}}

\* the linker run on the asset of a file that exports the one declaration C
Apply ==
    /\ evIn.op = "apply" /\ evOut = Nil
    /\ evOut' = LinkerRun([id |-> "f", exports |-> <<[k |-> "C", v |-> evIn.root]>>,
                           symbols |-> <<[k |-> "C", v |-> "C"]>>, links |-> <<>>], <<>>)
    /\ UNCHANGED <<prog, cache, inProgress, stack, ret, status, result, request, loads, evIn>>

\* the linker run on the asset of a file that exports the one declaration C
Flatten ==
    /\ evIn.op = "flatten" /\ evOut = Nil
    /\ evOut' = LinkerRun([id |-> "f", exports |-> <<[k |-> "C", v |-> evIn.iface]>>,
                           symbols |-> <<[k |-> "C", v |-> "C"]>>, links |-> <<>>], <<>>)
    /\ UNCHANGED <<prog, cache, inProgress, stack, ret, status, result, request, loads, evIn>>

Omit ==
    /\ evIn.op = "omit" /\ evOut = Nil
    /\ evOut' = performOmit(EvalNodes,
                           <<[source |-> "g", id |-> "g", exports |-> <<>>, symbols |-> <<>>,
                              links |-> <<[k |-> "g:Foo", v |-> OmitFoo]>>]>>,
                           evIn.base, evIn.toOmit)
    /\ UNCHANGED <<prog, cache, inProgress, stack, ret, status, result, request, loads, evIn>>

InitEval ==
    /\ prog = "rename"
    /\ cache = EmptyCache
    /\ inProgress = {}
    /\ stack = <<>>
    /\ ret = Nil
    /\ status = "idle"
    /\ result = Nil
    /\ request = Nil
    /\ loads = 0
    /\ evIn \in FlattenInputs \cup OmitInputs \cup ApplyInputs
    /\ evOut = Nil

NextEval == Flatten \/ Omit \/ Apply

SpecEval == InitEval /\ [][NextEval]_vars

(***************************************************************************)
(* The cache on its own: a host fills a LoaderCache through its setters    *)
(* and invalidates files.                                                  *)
(***************************************************************************)

\* the NodeId objects a caller of the cache holds: the ids of the export maps
\* and an object it made itself for a:Foo
CacheIds ==
    {makeId(f, n) : f \in {"a", "b"}, n \in {"Foo", "Bar"}} \cup {NodeIdCopy("caller", "a", "Foo")}
\* the nodes it stores under an id
CacheNodes(id) == {Str(id.symbol)} \cup (IF id = makeId("a", "Foo") THEN {Num} ELSE {})

\* setSymbol(id, {node, linkIds: []}): this.symbolCache.set(id, value)
CacheSetSymbol(id, node) ==
    /\ cache' = [cache EXCEPT !.symbolCache = OMSet(@, id, [node |-> node, linkIds |-> <<>>])]
    /\ evIn' = Nil /\ evOut' = Nil
    /\ UNCHANGED <<prog, inProgress, stack, ret, status, result, request, loads>>

\* setExportsFromFile with the export map of a file that declares Foo and
\* re-exports Bar of the other file
CacheSetExports(f) ==
    /\ cache' = setExportsFromFile(cache, f,
                    <<[k |-> "Foo", v |-> SourceExport("Foo", "Foo", Str("Foo"), f)],
                      [k |-> "Bar", v |-> SourceExport("Bar", "Bar", Str("Bar"),
                                                       IF f = "a" THEN "b" ELSE "a")]>>)
    /\ evIn' = Nil /\ evOut' = Nil
    /\ UNCHANGED <<prog, inProgress, stack, ret, status, result, request, loads>>

CacheSetAST(f) ==
    /\ cache' = setAST(cache, f)
    /\ evIn' = Nil /\ evOut' = Nil
    /\ UNCHANGED <<prog, inProgress, stack, ret, status, result, request, loads>>

\* invalidateFile(f); evIn keeps the cache before the call, evOut the cache after it
CacheInvalidate(f) ==
    /\ cache' = invalidateFile(cache, f)
    /\ evIn' = [op |-> "invalidate", file |-> f, before |-> cache]
    /\ evOut' = invalidateFile(cache, f)
    /\ UNCHANGED <<prog, inProgress, stack, ret, status, result, request, loads>>

\* deleteSymbol(f, n); evIn keeps the cache before the call, evOut the cache after it
CacheDeleteSymbol(f, n) ==
    /\ cache' = deleteSymbol(cache, f, n)
    /\ evIn' = [op |-> "deleteSymbol", file |-> f, symbol |-> n, before |-> cache]
    /\ evOut' = deleteSymbol(cache, f, n)
    /\ UNCHANGED <<prog, inProgress, stack, ret, status, result, request, loads>>

\* getCachedSymbolsFromFile(f, symbols); evOut keeps what it returned
CacheGetSymbols(f, symbols) ==
    /\ evIn' = [op |-> "getCachedSymbolsFromFile", file |-> f, symbols |-> symbols]
    /\ evOut' = getCachedSymbolsFromFile(cache, f, symbols)
    /\ UNCHANGED <<prog, cache, inProgress, stack, ret, status, result, request, loads>>

InitCache ==
    /\ prog = "rename"
    /\ cache = EmptyCache
    /\ inProgress = {}
    /\ stack = <<>>
    /\ ret = Nil
    /\ status = "idle"
    /\ result = Nil
    /\ request = Nil
    /\ loads = 0
    /\ evIn = Nil
    /\ evOut = Nil

NextCache ==
    \/ \E id \in CacheIds : \E node \in CacheNodes(id) : CacheSetSymbol(id, node)
    \/ \E f \in {"a", "b"}, n \in {"Foo", "Bar"} : CacheDeleteSymbol(f, n)
    \/ \E f \in {"a", "b"} :
           \E symbols \in {AllSymbols, Symbols(<<"Foo", "Bar">>), Symbols(<<"Bar", "Gone">>)} :
               CacheGetSymbols(f, symbols)
    \/ \E f \in {"a", "b"} : CacheSetExports(f)
    \/ \E f \in {"a", "b"} : CacheSetAST(f)
    \/ \E f \in {"a", "b"} : CacheInvalidate(f)

SpecCache == InitCache /\ [][NextCache]_vars


(***************************************************************************)
(* The walker on its own: walk(object, walkerFn) over a graph of objects   *)
(* that are told apart by identity, with the walkerFn that recurses into   *)
(* everything it is handed, (current, k, recurse) => recurse(current).     *)
(* A value is a primitive, an array of values, or a pointer to an object   *)
(* of the heap; `stack` holds the calls of recurse that have not returned, *)
(* `inProgress` is the set `circular`, evOut keeps which objects were      *)
(* entered and which occurrences were replaced by a link.                  *)
(***************************************************************************)
\* } else { return subject; }
WalkPrim ==
    /\ status = "running" /\ Top.todo # <<>> /\ "prim" \in DOMAIN Head(Top.todo).v
    /\ stack' = WithTop([Top EXCEPT !.todo = Tail(@), !.res = Append(@, Head(Top.todo))])
    /\ UNCHANGED <<prog, cache, inProgress, ret, status, result, request, loads, evIn, evOut>>

\* if (!Array.isArray(subject) && circular.has(subject)) return {type: 'link', id: subject.id}
WalkLink ==
    /\ status = "running" /\ Top.todo # <<>> /\ "ptr" \in DOMAIN Head(Top.todo).v
    /\ Head(Top.todo).v.ptr \in inProgress
    /\ stack' = WithTop([Top EXCEPT !.todo = Tail(@),
                            !.res = Append(@, [k |-> Head(Top.todo).k,
                                               v |-> Link(evIn.heap[Head(Top.todo).v.ptr].id)])])
    /\ evOut' = [evOut EXCEPT !.linked = Append(@, Head(Top.todo).v.ptr)]
    /\ UNCHANGED <<prog, cache, inProgress, ret, status, result, request, loads, evIn>>

\* circular.add(subject); for (const key in subject) res[key] = visit(subject[key], key)
WalkEnter ==
    /\ status = "running" /\ Top.todo # <<>> /\ "ptr" \in DOMAIN Head(Top.todo).v
    /\ Head(Top.todo).v.ptr \notin inProgress
    /\ inProgress' = inProgress \cup {Head(Top.todo).v.ptr}
    /\ stack' = Append(stack, [of |-> Head(Top.todo).v, res |-> <<>>,
                               todo |-> evIn.heap[Head(Top.todo).v.ptr].fields])
    /\ evOut' = [evOut EXCEPT !.entered = Append(@, Head(Top.todo).v.ptr)]
    /\ UNCHANGED <<prog, cache, ret, status, result, request, loads, evIn>>

\* subject.forEach((item, i) => (resultArray[i] = visit(item, key)))
WalkArray ==
    /\ status = "running" /\ Top.todo # <<>> /\ "arr" \in DOMAIN Head(Top.todo).v
    /\ stack' = Append(stack, [of |-> Head(Top.todo).v, res |-> <<>>,
                               todo |-> [i \in 1..Len(Head(Top.todo).v.arr) |->
                                            [k |-> "", v |-> Head(Top.todo).v.arr[i]]]])
    /\ UNCHANGED <<prog, cache, inProgress, ret, status, result, request, loads, evIn, evOut>>

\* an object whose mark is kept when its traversal ends
WalkLeaveMarked ==
    /\ status = "running" /\ Top.todo = <<>> /\ Len(stack) > 1
    /\ LET made == IF "arr" \in DOMAIN Top.of
                   THEN [arr |-> [i \in 1..Len(Top.res) |-> Top.res[i].v]]
                   ELSE [obj |-> Top.res]
           below == stack[Len(stack) - 1]
       IN stack' = [Popped EXCEPT ![Len(stack) - 1] =
                        [below EXCEPT !.todo = Tail(@),
                                      !.res = Append(@, [k |-> Head(below.todo).k, v |-> made])]]
    /\ UNCHANGED <<prog, cache, inProgress, ret, status, result, request, loads, evIn, evOut>>

\* circular.delete(subject); return res  /  return resultArray
WalkLeave ==
    /\ status = "running" /\ Top.todo = <<>> /\ Len(stack) > 1
    /\ LET made == IF "arr" \in DOMAIN Top.of
                   THEN [arr |-> [i \in 1..Len(Top.res) |-> Top.res[i].v]]
                   ELSE [obj |-> Top.res]
           below == stack[Len(stack) - 1]
       IN stack' = [Popped EXCEPT ![Len(stack) - 1] =
                        [below EXCEPT !.todo = Tail(@),
                                      !.res = Append(@, [k |-> Head(below.todo).k, v |-> made])]]
    /\ inProgress' = IF "ptr" \in DOMAIN Top.of THEN inProgress \ {Top.of.ptr} ELSE inProgress
    /\ UNCHANGED <<prog, cache, ret, status, result, request, loads, evIn, evOut>>

\* for (const k in object) res[k] = visit(object[k]); return res
WalkDone ==
    /\ status = "running" /\ Top.todo = <<>> /\ Len(stack) = 1
    /\ result' = [obj |-> Top.res]
    /\ status' = "done"
    /\ stack' = <<>>
    /\ UNCHANGED <<prog, cache, inProgress, ret, request, loads, evIn, evOut>>

\* walk is called with a root object over a heap of the objects A, B and C,
\* each with an id and its keys in order; the root's keys are visited, the
\* root itself is not marked
InitWalk ==
    /\ prog = "rename"
    /\ cache = EmptyCache
    /\ inProgress = {}
    /\ LET F(k, v) == [k |-> k, v |-> v]
           P(a) == [ptr |-> a]
           O(a, fields) == [id |-> makeIdString("f", a), fields |-> fields]
           leaf(a) == O(a, <<F("v", [prim |-> a])>>)
           heaps ==
               {\* a tree
                [A |-> O("A", <<F("p", P("B")), F("q", P("C"))>>), B |-> leaf("B"), C |-> leaf("C")],
                \* an object that holds itself
                [A |-> O("A", <<F("v", [prim |-> "A"]), F("self", P("A"))>>),
                 B |-> leaf("B"), C |-> leaf("C")],
                \* a cycle of two
                [A |-> O("A", <<F("b", P("B"))>>),
                 B |-> O("B", <<F("a", P("A")), F("c", P("C"))>>), C |-> leaf("C")],
                \* an object on two branches, no cycle
                [A |-> O("A", <<F("l", P("B")), F("r", P("B"))>>),
                 B |-> O("B", <<F("c", P("C"))>>), C |-> leaf("C")],
                \* an object on two branches of a cycle
                [A |-> O("A", <<F("l", P("B")), F("r", P("B"))>>),
                 B |-> O("B", <<F("c", P("C"))>>),
                 C |-> O("C", <<F("up", P("A")), F("b", P("B")), F("v", [prim |-> "C"])>>)],
                \* a cycle and a shared object through arrays
                [A |-> O("A", <<F("items", [arr |-> <<P("B"), P("A"), [prim |-> "x"]>>])>>),
                 B |-> O("B", <<F("items", [arr |-> <<P("C"), P("C")>>])>>), C |-> leaf("C")]}
           roots ==
               {<<F("x", P("A"))>>,
                <<F("x", P("A")), F("y", P("A"))>>,
                <<F("x", P("B")), F("y", P("A"))>>,
                <<F("x", [arr |-> <<P("A"), P("C")>>]), F("y", [prim |-> "y"])>>}
       IN \E heap \in heaps : \E root \in roots :
              /\ evIn = [op |-> "walk", heap |-> heap, root |-> root]
              /\ stack = <<[of |-> Nil, todo |-> root, res |-> <<>>]>>
    /\ ret = Nil
    /\ status = "running"
    /\ result = Nil
    /\ request = Nil
    /\ loads = 0
    /\ evOut = [entered |-> <<>>, linked |-> <<>>]

NextWalk == WalkPrim \/ WalkLink \/ WalkEnter \/ WalkArray \/ WalkLeave \/ WalkDone

\* walk is one synchronous call: it runs on until it returns
LiveWalk == InitWalk /\ [][NextWalk]_vars /\ WF_vars(NextWalk)


(***************************************************************************)
(* SpecPair: two requests of the webpack loader for different entry files, *)
(* on one cache. Each request makes its own Loader; the variables stack,   *)
(* inProgress, ret, status, result and request are those of the request    *)
(* that is running, evIn.other keeps those of the request that is          *)
(* suspended. Before the two run together each runs alone on an empty      *)
(* cache, and evIn.alone keeps how that ended.                             *)
(***************************************************************************)
\* the request t goes on
Resume(t) ==
    /\ stack' = t.stack
    /\ inProgress' = t.inProgress
    /\ ret' = t.ret
    /\ status' = t.status
    /\ result' = t.result
    /\ request' = t.request

\* docsLoader: cache.invalidateFile(this.resourcePath), new Loader, loader.load(this.resourcePath)
PairLoad ==
    /\ status = "idle"
    /\ cache' = invalidateFile(cache, request.file)
    /\ stack' = <<LoadFrame(request.file, request.req)>>
    /\ status' = "running"
    /\ inProgress' = {}
    /\ UNCHANGED <<prog, ret, result, request, loads, evIn, evOut>>

\* a request that ran alone has ended: the next one runs alone on an empty
\* cache, and after the second the two are issued together on an empty cache
PairAlone ==
    /\ evIn.other = Nil
    /\ status \in {"done", "error"}
    /\ cache' = EmptyCache
    /\ LET alone == OMSet(evIn.alone, request.file, [status |-> status, result |-> result])
           \* a request docsLoader has not begun to serve
           Waiting(file) ==
               [stack |-> <<>>, inProgress |-> {}, ret |-> Nil, status |-> "idle", result |-> Nil,
                request |-> [file |-> file, req |-> AllSymbols]]
       IN IF request.file = evIn.a
          THEN /\ Resume(Waiting(evIn.b))
               /\ evIn' = [evIn EXCEPT !.alone = alone]
          ELSE /\ Resume(Waiting(evIn.a))
               /\ evIn' = [evIn EXCEPT !.alone = alone, !.other = Waiting(evIn.b)]
    /\ UNCHANGED <<prog, loads, evOut>>

\* one Loader for both requests: the suspended request's in-progress set stays
PairSwitchShared ==
    /\ evIn.other # Nil
    /\ ~(Running /\ Top.pc = "start")
    /\ evIn.other.status \in {"idle", "running"}
    /\ Resume([evIn.other EXCEPT !.inProgress = inProgress \cup @])
    /\ evIn' = [evIn EXCEPT !.other = [stack |-> stack, inProgress |-> inProgress, ret |-> ret,
                                       status |-> status, result |-> result, request |-> request],
                            !.mixed = @ \/ (status = "running" /\ evIn.other.status = "running")]
    /\ UNCHANGED <<prog, cache, loads, evOut>>

\* the running request is suspended at an await (a call runs to its first
\* await before anything else does), or has ended, and the other goes on
PairSwitch ==
    /\ evIn.other # Nil
    /\ ~(Running /\ Top.pc = "start")
    /\ evIn.other.status \in {"idle", "running"}
    /\ Resume(evIn.other)
    /\ evIn' = [evIn EXCEPT !.other = [stack |-> stack, inProgress |-> inProgress, ret |-> ret,
                                       status |-> status, result |-> result, request |-> request],
                            !.mixed = @ \/ (status = "running" /\ evIn.other.status = "running")]
    /\ UNCHANGED <<prog, cache, loads, evOut>>

InitPair ==
    /\ \E e \in {[prog |-> "importCycle", a |-> "a", b |-> "b"],
                  [prog |-> "wildMixed", a |-> "index", b |-> "barrel"],
                  [prog |-> "linkChain", a |-> "index", b |-> "bar"],
                  [prog |-> "missing", a |-> "index", b |-> "bar"],
                  [prog |-> "defaultImport", a |-> "index", b |-> "foo"],
                  [prog |-> "namespaceImport", a |-> "index", b |-> "foo"]} :
           /\ prog = e.prog
           /\ evIn = [a |-> e.a, b |-> e.b, alone |-> <<>>, other |-> Nil, mixed |-> FALSE]
           /\ request = [file |-> e.a, req |-> AllSymbols]
    /\ cache = EmptyCache
    /\ inProgress = {}
    /\ stack = <<>>
    /\ ret = Nil
    /\ status = "idle"
    /\ result = Nil
    /\ loads = 0
    /\ evOut = Nil

NextPair ==
    \/ PairLoad
    \/ PairAlone
    \/ PairSwitch
    \/ LoadCached
    \/ LoadDetermine
    \/ LoadNeeded
    \/ LoadGroup
    \/ LoadGroupRet
    \/ LoadDone
    \/ BegCached
    \/ BegGather
    \/ BegExternal
    \/ BegExternalRet
    \/ BegWildcard
    \/ BegWildcardRet
    \/ BegResolveFails
    \/ BegDone
    \/ LeDepStub
    \/ LeDepLoad
    \/ LeDepRet
    \/ LeResolveFails
    \/ LeLink

SpecPair == InitPair /\ [][NextPair]_vars


(***************************************************************************)
(* Properties                                                              *)
(***************************************************************************)
\* the first load of a session (cold cache) has resolved
Done(p, file, req) ==
    /\ prog = p
    /\ status = "done"
    /\ loads = 1
    /\ request = [file |-> file, req |-> req]

\* _loadExports is about to run the linker
AtLink == Running /\ Top.op = "le" /\ Top.pc = "deps" /\ Top.deps = <<>>
ThisAsset == [id |-> Top.file, exports |-> Top.exportedNodes, symbols |-> Top.symbols, links |-> <<>>]

Values(m) == [i \in 1..Len(m) |-> m[i].v]

RECURSIVE LinkIds(_)
RECURSIVE LinkIdsSeq(_)
\* the ids of the link nodes in a node
LinkIdsSeq(items) ==
    IF items = <<>> THEN {} ELSE LinkIds(Head(items)) \cup LinkIdsSeq(Tail(items))
LinkIds(n) ==
    IF n = Nil \/ "type" \notin DOMAIN n THEN {}
    ELSE IF n.type = "link" THEN {n.id}
    ELSE UNION {IF f \in ArrayFields THEN LinkIdsSeq(n[f])
                ELSE IF f = "properties" THEN LinkIdsSeq(Values(n[f]))
                ELSE LinkIds(n[f]) : f \in {NodeFields(n)[i] : i \in 1..Len(NodeFields(n))}}

\* C1: a top-level load completes, because neither the dependency recursion
\* nor the export-graph build recurses without bound: no file is entered
\* again by buildExportGraph, or by load, while an earlier call for the same
\* file is still pending. (A call re-entered for a pending file finds the
\* files and the export cache as the pending call found them, so it repeats
\* that call's steps and enters the file once more.)
C1_NoUnboundedRecursion ==
    \A i, j \in 1..Len(stack) :
        (i < j /\ stack[i].op = stack[j].op /\ stack[i].op \in {"beg", "load"})
            => stack[i].file # stack[j].file

\* C2: no node of type reference appears in the exports or the links the
\* linker returns, also when the reference was the default of a type
\* parameter or came from a dependency.
C2_NoReferenceInOutput ==
    AtLink =>
        /\ RefsOfSeq(Values(LinkerRun(ThisAsset, Top.resolved).exports)) = <<>>
        /\ RefsOfSeq(Values(LinkerRun(ThisAsset, Top.resolved).links)) = <<>>

\* C3: for every link node in the returned exports or inside a value of the
\* returned links, links[id] is populated whenever the linker's node table
\* or the links of a dependency hold a node with that id.
C3_LinksPopulated ==
    AtLink =>
        LET out == LinkerRun(ThisAsset, Top.resolved)
            nodes == processAsset([asset |-> ThisAsset, deps |-> Top.resolved], ThisAsset, LinkerInit).st.nodes
        IN \A id \in LinkIdsSeq(Values(out.exports)) \cup LinkIdsSeq(Values(out.links)) :
               resolveLink(nodes, Top.resolved, id) # Nil => OMHas(out.links, id)


\* the evaluator has flattened an interface / evaluated an Omit
FlattenDone == "op" \in DOMAIN evIn /\ evIn.op = "flatten" /\ evOut # Nil
OmitDone == "op" \in DOMAIN evIn /\ evIn.op = "omit" /\ evOut # Nil
Flattened == OMGet(evOut.exports, "C")

Unwrap(n) == IF n.type = "application" THEN n.base ELSE n
RECURSIVE Declared(_)
RECURSIVE DeclaredSeq(_)
\* the properties declared in the hierarchy of an interface, ancestors
\* first, each with the id of the interface that declares it
DeclaredSeq(exts) ==
    IF exts = <<>> THEN <<>> ELSE Declared(Unwrap(Head(exts))) \o DeclaredSeq(Tail(exts))
Declared(I) ==
    DeclaredSeq(I.extends)
        \o [i \in 1..Len(I.properties) |->
               [k |-> I.properties[i].k, value |-> I.properties[i].v.value, owner |-> I.id]]
RECURSIVE FirstOccurrences(_)
FirstOccurrences(keys) ==
    IF keys = <<>> THEN <<>>
    ELSE LET r == FirstOccurrences(SubSeq(keys, 1, Len(keys) - 1))
             k == keys[Len(keys)]
         IN IF \E i \in 1..Len(r) : r[i] = k THEN r ELSE Append(r, k)
DeclaredKeys(I) == [i \in 1..Len(Declared(I)) |-> Declared(I)[i].k]
OwnKeys(I) == OMKeySet(I.properties)
\* the ancestors' declarations of the name k
AncestorDecls(I, k) ==
    {DeclaredSeq(I.extends)[i] :
        i \in {j \in 1..Len(DeclaredSeq(I.extends)) : DeclaredSeq(I.extends)[j].k = k}}

C5_InheritedFromOnlyInherited ==
    FlattenDone =>
        \A i \in 1..Len(Flattened.properties) :
            LET p == Flattened.properties[i] IN
            IF p.k \in OwnKeys(evIn.iface)
            THEN p.v.inheritedFrom = NoId
            ELSE \E d \in AncestorDecls(evIn.iface, p.k) : p.v.inheritedFrom = d.owner

RECURSIVE LiteralKeys(_)
\* the string literals a key type denotes, through unions, aliases and links
LiteralKeys(K) ==
    IF K.type = "string" THEN {K.value}
    ELSE IF K.type = "union" THEN UNION {LiteralKeys(K.elements[i]) : i \in 1..Len(K.elements)}
    ELSE IF K.type = "alias" THEN LiteralKeys(K.value)
    ELSE IF K.type = "link" THEN LiteralKeys(OMGet(EvalNodes, K.id))
    ELSE {}
Kept(T, K) == SelectSeq(T.properties, LAMBDA e : e.k \notin K)

\* C6: Omit<T, K>, T resolving to an interface and K a string literal or a
\* (nested) union of string literals that are keys of T, has
\* |T.properties| - |K| properties, none of the keys of K, and every other
\* property of T unchanged and in T's order.
C6_OmitRemovesExactlyK ==
    (OmitDone /\ LiteralKeys(evIn.toOmit) \subseteq OMKeySet(OmitFoo.properties)) =>
        /\ Len(evOut.properties) = Len(OmitFoo.properties) - Cardinality(LiteralKeys(evIn.toOmit))
        /\ OMKeySet(evOut.properties) \cap LiteralKeys(evIn.toOmit) = {}
        /\ evOut.properties = Kept(OmitFoo, LiteralKeys(evIn.toOmit))

\* Omit<Foo, Handlers | 'foo'> through a link to Foo keeps bar and style
C6_Witness ==
    /\ OmitDone
    /\ evIn.base = Link("g:Foo")
    /\ evIn.toOmit = Union(<<Link("f:Handlers"), Str("foo")>>)
    /\ OMKeys(evOut.properties) = <<"bar", "style">>


\* C7: with `export {Base as Foo} from "./base"` in F, load(F).exports has
\* the key Foo and no key Base, the node under Foo has the name Foo, and
\* its id still names Base in base's file.
C7_RenamedReexport ==
    Done("rename", "index", AllSymbols) =>
        /\ OMHas(result.exports, "Foo")
        /\ ~OMHas(result.exports, "Base")
        /\ OMGet(result.exports, "Foo").name = "Foo"
        /\ OMGet(result.exports, "Foo").id = makeIdString("base", "Base")

\* C8: every key of the export map built for a file is the public name of
\* its entry, so that with `export {Foo as Bar}` a load of Bar returns Bar,
\* and Foo is no key of exports.
C8_KeysArePublicNames ==
    /\ \A i \in 1..Len(cache.exportCache) :
           \A j \in 1..Len(cache.exportCache[i].v) :
               cache.exportCache[i].v[j].k = cache.exportCache[i].v[j].v.name
    /\ Done("localRename", "index", Symbols(<<"Bar">>)) => OMHas(result.exports, "Bar")
    /\ (prog = "localRename" /\ status = "done") => ~OMHas(result.exports, "Foo")

\* the statements of file F of the given kind
StmtsOf(F, kind) == SelectSeq(OMGet(Files(prog), F), LAMBDA s : s.kind = kind)
ExportMap(F) == OMGet(cache.exportCache, F)

\* C9: the export map of a file F with `export * from x` has every name x
\* exports; a name F declares itself, or names in a re-export, keeps F's
\* entry (a renamed re-export points at the declaration of its source
\* name) and is not replaced by the wildcard's entry.
C9_WildcardKeepsOwn ==
    \A F \in OMKeySet(cache.exportCache) \cap FileNames(prog) :
        /\ \A i \in 1..Len(StmtsOf(F, "wild")) :
               LET x == StmtsOf(F, "wild")[i].source IN
               OMHas(cache.exportCache, x) => OMKeySet(ExportMap(x)) \subseteq OMKeySet(ExportMap(F))
        /\ \A i \in 1..Len(StmtsOf(F, "decl")) :
               LET n == StmtsOf(F, "decl")[i].name IN
               OMHas(ExportMap(F), n) /\ OMGet(ExportMap(F), n).id = makeId(F, n)
        /\ \A i \in 1..Len(StmtsOf(F, "named")) :
               LET st == StmtsOf(F, "named")[i] IN
               \A j \in 1..Len(st.specs) :
                   (OMHas(cache.exportCache, st.source)
                        /\ OMHas(ExportMap(st.source), st.specs[j].sourceName)) =>
                       /\ OMHas(ExportMap(F), st.specs[j].name)
                       /\ OMGet(ExportMap(F), st.specs[j].name).id
                              = OMGet(ExportMap(st.source), st.specs[j].sourceName).id

\* C10: the first load of an entry that re-exports Foo and Bar from a
\* barrel, where foo imports Bar from the barrel and bar imports Foo from
\* the barrel (Bar a type alias), returns exports with both keys, and
\* exports.Bar is a link whose id names Bar in bar's file.
C10_CircularDeclarations ==
    Done("circularDecl", "index", AllSymbols) =>
        /\ OMHas(result.exports, "Foo")
        /\ OMHas(result.exports, "Bar")
        /\ OMGet(result.exports, "Bar").type = "link"
        /\ OMGet(result.exports, "Bar").id = makeIdString("bar", "Bar")

\* that load has returned, and the alias Bar is among its links
C10_Witness ==
    /\ Done("circularDecl", "index", AllSymbols)
    /\ OMKeys(result.exports) = <<"Foo", "Bar">>
    /\ OMHas(result.links, makeIdString("bar", "Bar"))

\* ---- error handling of load -------------------------------------------------

\* a load in progress or finished, started by load(file, req) on program p
Asked(p, file, req) == prog = p /\ loads = 1 /\ request = [file |-> file, req |-> req]

\* C11: a load that needs only some symbols of a barrel succeeds although the
\* barrel re-exports another, unrequested symbol from a file that cannot be
\* resolved: load("index", ["Foo"]) of `export {Foo} from "foo"; export {Bar}
\* from "gone"` never ends in an error.
C11_SkipsUnrequestedExports ==
    Asked("missing", "index", Symbols(<<"Foo">>)) => status # "error"

\* the names load(F, req) asks of F's own declarations, in source order
Wanted(req, name) == req.all \/ \E i \in 1..Len(req.names) : req.names[i] = name
RequestedDecls(F, req) == SelectSeq(StmtsOf(F, "decl"), LAMBDA s : Wanted(req, s.name))
\* some requested declaration of F refers to a name imported from `source`
ReferencesImport(F, req, source) ==
    \E i \in 1..Len(RequestedDecls(F, req)) :
        \E j \in 1..Len(RefsOf(RequestedDecls(F, req)[i].node)) :
            RefsOf(RequestedDecls(F, req)[i].node)[j].specifier = source
\* the specifiers F imports from that the host cannot resolve
UnresolvedImports(F) ==
    {StmtsOf(F, "import")[i].source : i \in 1..Len(StmtsOf(F, "import"))}
        \ OMKeySet(Files(prog))
\* a frame that is about to hand `source` to host.resolve
Resolving(source) ==
    \E i \in 1..Len(stack) :
        \/ stack[i].op = "le" /\ \E j \in 1..Len(stack[i].deps) : stack[i].deps[j].source = source
        \/ stack[i].op = "beg" /\ OMHas(stack[i].externalExports, source)
        \/ stack[i].op = "beg" /\ \E j \in 1..Len(stack[i].wildcardExports) :
                                      stack[i].wildcardExports[j].sourceFile = source
\* a file that only declares its exports
OnlyDeclares(F) ==
    \A i \in 1..Len(OMGet(Files(prog), F)) : OMGet(Files(prog), F)[i].kind \in {"decl", "import"}

\* C12: a load of a file F that imports from a specifier the host cannot
\* resolve, where no requested exported declaration refers to that import,
\* never hands the specifier to resolve, never fails, and returns the requested
\* declarations of F (one export per requested declaration, in source order,
\* with the declaration's type and id).
C12_SkipsUnusedImports ==
    \A F \in FileNames(prog), req \in Requests :
        \A source \in UnresolvedImports(F) :
            (loads = 1 /\ request = [file |-> F, req |-> req] /\ OnlyDeclares(F)
             /\ ~ReferencesImport(F, req, source)) =>
                /\ status # "error"
                /\ ~Resolving(source)
                /\ status = "done" =>
                       [i \in 1..Len(result.exports) |->
                           [k |-> result.exports[i].k, type |-> result.exports[i].v.type,
                            id |-> result.exports[i].v.id]]
                       = [i \in 1..Len(RequestedDecls(F, req)) |->
                           [k |-> RequestedDecls(F, req)[i].name,
                            type |-> RequestedDecls(F, req)[i].node.type,
                            id |-> RequestedDecls(F, req)[i].node.id]]

\* load("bar", ["Foo"]) is done with Foo, although bar imports Gone from a
\* file that does not exist; so is load("base")
C12_Witness ==
    /\ Done("missing", "bar", Symbols(<<"Foo">>))
    /\ UnresolvedImports("bar") = {"gone"}
    /\ OMKeys(result.exports) = <<"Foo">>

\* the next dependency of recurseImportedDependencies is one the host cannot resolve
ResolveThrows ==
    /\ Running /\ Top.op = "le" /\ Top.pc = "deps" /\ Top.deps # <<>>
    /\ ~canResolve(Files(prog), Head(Top.deps).source)

\* C13: when a requested exported declaration refers to an import whose
\* specifier the host cannot resolve, the error of host.resolve leaves load:
\* the step that calls resolve abandons every frame and ends the request in an
\* error with no result, and such a request never ends with a result.
C13_ResolveErrorPropagates ==
    /\ [][ResolveThrows => (status' = "error" /\ stack' = <<>> /\ result' = Nil)]_vars
    /\ [](\A F \in FileNames(prog), req \in Requests :
            \A source \in UnresolvedImports(F) :
                (loads = 1 /\ request = [file |-> F, req |-> req]
                 /\ ReferencesImport(F, req, source)) => (status # "done" /\ result = Nil))

\* load("bar", ["Bar"]) has failed: Bar refers to Gone, imported from a file
\* that does not exist
C13_Witness ==
    /\ Asked("missing", "bar", Symbols(<<"Bar">>))
    /\ ReferencesImport("bar", Symbols(<<"Bar">>), "gone")
    /\ status = "error" /\ result = Nil

\* C14: a file that cannot be parsed is treated as having no exports: gathering
\* its exports gives three empty lists, its AST is never in the AST cache, the
\* export map built for it is empty, and a load of a file that imports or
\* re-exports from it does not fail.
C14_UnparsableIsEmpty ==
    \A F \in FileNames(prog) :
        ~parses(Files(prog), F) =>
            /\ gatherExports(Files(prog), F) = NoExports
            /\ F \notin cache.astCache
            /\ OMHas(cache.exportCache, F) => ExportMap(F) = <<>>
            /\ prog = "broken" => status # "error"

\* load("barrel") is done after the export graph of the unparsable x was built
C14_Witness ==
    /\ Done("broken", "barrel", AllSymbols)
    /\ ~parses(Files(prog), "x") /\ OMHas(cache.exportCache, "x")
    /\ OMKeys(result.exports) = <<"Base">>

\* buildExportGraph has been called for a file whose export graph is still
\* being built further down the call chain
ReEntered ==
    /\ Running /\ Top.op = "beg" /\ Top.pc = "start"
    /\ \E i \in 1..(Len(stack) - 1) : stack[i].op = "beg" /\ stack[i].file = Top.file

\* C15: a build of the export graph that re-enters a file whose graph is still
\* being built returns an empty export map at once, stores nothing in the
\* export cache, and leaves the outer build to go on.
C15_ReEntryReturnsEmpty ==
    [][ReEntered => (stack' = Popped /\ ret' = <<>> /\ cache' = cache /\ status' = status)]_vars

\* ---- the cache ---------------------------------------------------------------

\* the last call on the cache was this operation
CacheCalled(op) == evIn # Nil /\ evIn.op = op

\* the entries of an ordered map whose keys satisfy Keep
Entries(m, Keep(_)) == {m[i] : i \in {j \in 1..Len(m) : Keep(m[j].k)}}
\* the symbol ids the export map of file f pointed at
ReExported(c, f) ==
    IF OMHas(c.exportCache, f)
    THEN {OMGet(c.exportCache, f)[i].v.id : i \in 1..Len(OMGet(c.exportCache, f))}
    ELSE {}

\* C16: invalidateFile(F) removes the AST of F, the export map of F and every
\* symbol entry whose id names file F, and nothing else: the ASTs and export
\* maps of other files and the symbol entries of other files, those F
\* re-exports among them, are the same after the call as before it.
C16_InvalidateFrame ==
    CacheCalled("invalidate") =>
        LET F == evIn.file
            before == evIn.before
            after == evOut
        IN /\ after = cache
           /\ F \notin after.astCache
           /\ ~OMHas(after.exportCache, F)
           /\ Entries(after.symbolCache, LAMBDA id : id.file = F) = {}
           /\ after.astCache \cup {F} = before.astCache \cup {F}
           /\ SelectSeq(after.exportCache, LAMBDA e : e.k # F)
                = SelectSeq(before.exportCache, LAMBDA e : e.k # F)
           /\ SelectSeq(after.symbolCache, LAMBDA e : e.k.file # F)
                = SelectSeq(before.symbolCache, LAMBDA e : e.k.file # F)
           /\ \A id \in ReExported(before, F) :
                  id.file # F => OMGet(after.symbolCache, id) = OMGet(before.symbolCache, id)

\* invalidateFile("a") has run on a cache that held a's AST, a's export map, a
\* symbol of a and the symbol of b that a re-exports
C16_Witness ==
    /\ CacheCalled("invalidate") /\ evIn.file = "a"
    /\ "a" \in evIn.before.astCache /\ OMHas(evIn.before.exportCache, "a")
    /\ OMHas(evIn.before.symbolCache, makeId("a", "Foo"))
    /\ makeId("b", "Bar") \in ReExported(evIn.before, "a")
    /\ OMHas(evIn.before.symbolCache, makeId("b", "Bar"))
    /\ OMHas(evOut.symbolCache, makeId("b", "Bar"))
    /\ OMHas(evIn.before.exportCache, "b") /\ "b" \in evIn.before.astCache

\* ---- repeated requests -------------------------------------------------------

\* the request now served repeats the previous one, which returned a result, and
\* no file was invalidated or changed between the two
Repeated ==
    /\ evIn # Nil /\ evIn.request = request
    /\ (evIn.between # Nil => evIn.between.op = "stub")

\* C17: a second load of the same file with the same request, with no source
\* change and no invalidation since the first, returns the {exports, links} the
\* first one returned.
C17_RepeatedLoadSameOutput ==
    (Repeated /\ status = "done") => result = evIn.result

\* the declarations in the current sources
CurrentDecls ==
    UNION {{StmtsOf(f, "decl")[i].node : i \in 1..Len(StmtsOf(f, "decl"))} : f \in FileNames(prog)}
\* an exported interface has the properties its declaration has in the current sources
Fresh(node) ==
    \A d \in CurrentDecls :
        (node.type = "interface" /\ d.id = node.id)
            => OMKeys(node.properties) = OMKeys(d.properties)
\* the sources are those left by an edit, or equal to them
EditedSources == prog \in {"reexportEdited", "wildMixedEdited", "twoSourcesEdited"}

\* C18: once every changed file has been invalidated, a load returns what a
\* load with an empty cache returns on the current sources. A load with an
\* empty cache returns every exported interface with the properties of its
\* current declaration; so does every load that began after the last edit,
\* the watcher having invalidated the edited file when it changed.
C18_LoadAfterInvalidation ==
    (EditedSources /\ status = "done" /\ evOut = Nil) =>
        \A i \in 1..Len(result.exports) : Fresh(result.exports[i].v)

\* ---- the symbol list of a request --------------------------------------------

RECURSIVE PublicNamesOf(_)
\* the public export names the statements give a file (its wildcards aside)
PublicNamesOf(stmts) ==
    IF stmts = <<>> THEN <<>>
    ELSE LET s == Head(stmts)
             here == CASE s.kind = "decl" -> <<s.name>>
                       [] s.kind = "named" -> [i \in 1..Len(s.specs) |-> s.specs[i].name]
                       [] s.kind = "local" ->
                            [i \in 1..Len(s.specs) |-> s.specs[i].exportName]
                       [] OTHER -> <<>>
         IN here \o PublicNamesOf(Tail(stmts))
PublicNames(F) == PublicNamesOf(OMGet(Files(prog), F))

\* the request now served and the previous one were for the same file, both
\* began with an empty cache on the same sources, and one asked for `a`, the
\* other for `b`
ColdPair(a, b) ==
    /\ evIn # Nil /\ evIn.op = "again" /\ loads = 2 /\ evIn.cold /\ ~EditedSources
    /\ \/ evIn.request.req = a /\ request.req = b
       \/ evIn.request.req = b /\ request.req = a

\* C19: for a file F (without wildcard re-exports, so that its public names
\* can be read off its statements), load(F, S) with S the list of all public
\* export names of F returns the exports load(F) returns, both with an empty
\* cache.
C19_AllNamesSameAsOmitted ==
    \A F \in FileNames(prog) :
        (/\ request # Nil /\ request.file = F /\ status = "done"
         /\ StmtsOf(F, "wild") = <<>>
         /\ ColdPair(AllSymbols, Symbols(PublicNames(F))))
            => result.exports = evIn.result.exports

\* the elements of a sequence
Range(s) == {s[i] : i \in 1..Len(s)}

\* C20: the keys of the exports load(F, S) returns all belong to S, and the
\* keys of the exports of any load of F (F without wildcard re-exports, so
\* that its public names can be read off its statements) are public export
\* names of F: a requested name F does not export is dropped and no other
\* key takes its place.
C20_KeysWithinRequest ==
    (request # Nil /\ status = "done") =>
        /\ ~request.req.all => OMKeySet(result.exports) \subseteq Range(request.req.names)
        /\ StmtsOf(request.file, "wild") = <<>>
               => OMKeySet(result.exports) \subseteq Range(PublicNames(request.file))

RECURSIVE InheritedIds(_)
RECURSIVE InheritedIdsSeq(_)
\* the ids named by inheritedFrom on the properties and methods in a node
InheritedIdsSeq(items) ==
    IF items = <<>> THEN {} ELSE InheritedIds(Head(items)) \cup InheritedIdsSeq(Tail(items))
InheritedIds(n) ==
    IF n = Nil \/ "type" \notin DOMAIN n THEN {}
    ELSE (IF n.type \in {"property", "method"} /\ n.inheritedFrom # NoId
          THEN {n.inheritedFrom} ELSE {})
         \cup UNION {IF f \in ArrayFields THEN InheritedIdsSeq(n[f])
                     ELSE IF f = "properties" THEN InheritedIdsSeq(Values(n[f]))
                     ELSE InheritedIds(n[f]) : f \in Range(NodeFields(n))}

\* the interface with this id is a value of the returned links or exports
InterfacePresent(out, x) ==
    \E n \in Range(Values(out.exports)) \cup Range(Values(out.links)) :
        HasField(n, "type") /\ n.type = "interface" /\ n.id = x

\* C21: for every property or method in the linker output (in the exports
\* and in the values of the links) with inheritedFrom = x, an interface
\* node with id x is present in the returned links or exports.
C21_InheritedFromPresent ==
    AtLink =>
        \A x \in InheritedIdsSeq(Values(LinkerRun(ThisAsset, Top.resolved).exports))
                 \cup InheritedIdsSeq(Values(LinkerRun(ThisAsset, Top.resolved).links)) :
            InterfacePresent(LinkerRun(ThisAsset, Top.resolved), x)

\* the same for the properties of the returned exports alone
C21_ExportsOnly ==
    AtLink =>
        \A x \in InheritedIdsSeq(Values(LinkerRun(ThisAsset, Top.resolved).exports)) :
            InterfacePresent(LinkerRun(ThisAsset, Top.resolved), x)

\* ---- the symbol cache --------------------------------------------------------

\* two NodeId objects of the same file and symbol
SameSymbol(a, b) == a.file = b.file /\ a.symbol = b.symbol

\* no call that stores under, deletes or invalidates the symbol of o
Untouched(o) ==
    /\ \A id \in CacheIds : \A node \in CacheNodes(id) :
           SameSymbol(o, id) => ~CacheSetSymbol(id, node)
    /\ ~CacheDeleteSymbol(o.file, o.symbol)
    /\ ~CacheInvalidate(o.file)

\* C22: after setSymbol(id, v), getCachedSymbol with a NodeId of the same file
\* and symbol returns v, and goes on returning it over every call that does
\* not overwrite or delete the entry or invalidate its file; what is returned
\* for a NodeId of another file or symbol is not changed by the store.
C22_SetThenGet ==
    [][/\ \A id \in CacheIds : \A node \in CacheNodes(id) :
              CacheSetSymbol(id, node) =>
                  \A o \in CacheIds :
                      getCachedSymbol(cache', o) =
                          IF SameSymbol(o, id) THEN [node |-> node, linkIds |-> <<>>]
                          ELSE getCachedSymbol(cache, o)
       /\ \A o \in CacheIds :
              Untouched(o) => getCachedSymbol(cache', o) = getCachedSymbol(cache, o)]_vars

\* the same with the very object that was passed to setSymbol
C22_SameObject ==
    [][/\ \A id \in CacheIds : \A node \in CacheNodes(id) :
              CacheSetSymbol(id, node) =>
                  \A o \in CacheIds :
                      getCachedSymbol(cache', o) =
                          IF o = id THEN [node |-> node, linkIds |-> <<>>]
                          ELSE getCachedSymbol(cache, o)
       /\ \A o \in CacheIds :
              Untouched(o) => getCachedSymbol(cache', o) = getCachedSymbol(cache, o)]_vars

\* the symbol entries and the other two caches that a call for file:symbol must leave alone
OtherEntries(c, file, symbol) ==
    [astCache |-> c.astCache, exportCache |-> c.exportCache,
     symbolCache |-> SelectSeq(c.symbolCache,
                               LAMBDA e : ~SameSymbol(e.k, makeId(file, symbol)))]

\* C30: deleteSymbol(filePath, symbol) removes the symbol-cache entry stored for
\* that file and symbol, so that getCachedSymbol for a NodeId of that file and
\* symbol finds nothing after it, and it leaves every other entry of the symbol
\* cache, the export maps and the ASTs as they were.
C30_DeleteSymbol ==
    CacheCalled("deleteSymbol") =>
        /\ evOut = cache
        /\ \A o \in CacheIds :
               SameSymbol(o, makeId(evIn.file, evIn.symbol)) => getCachedSymbol(cache, o) = Nil
        /\ OtherEntries(cache, evIn.file, evIn.symbol)
             = OtherEntries(evIn.before, evIn.file, evIn.symbol)

\* the frame alone: deleteSymbol changes no entry of another file or symbol
C30_OthersUnchanged ==
    CacheCalled("deleteSymbol") =>
        OtherEntries(cache, evIn.file, evIn.symbol)
            = OtherEntries(evIn.before, evIn.file, evIn.symbol)

\* what C27 says of getCachedSymbolsFromFile(F, S) = out on cache c, for the
\* requests S that satisfy Which
LookupSorted(c, F, S, out, Which(_)) ==
    Which(S) =>
        IF OMHas(c.exportCache, F)
        THEN LET exportMap == getExportsFromFile(c, F)
                 requested == IF S.all THEN OMKeySet(exportMap) ELSE Range(S.names)
             IN /\ out.known
                /\ \A s \in requested : (s \in OMKeySet(out.found)) # (s \in Range(out.unfound))
                /\ OMKeySet(out.found) \cup Range(out.unfound) \subseteq requested
                /\ \A s \in OMKeySet(out.found) :
                       /\ OMHas(exportMap, s)
                       /\ OMGet(out.found, s) = getCachedSymbol(c, OMGet(exportMap, s).id)
        ELSE /\ out.found = <<>>
             /\ IF S.all THEN ~out.known ELSE out.known /\ out.unfound = S.names

\* C27: getCachedSymbolsFromFile(F, S), when F's export map is cached, puts
\* every requested symbol (every name of F's export map when S is omitted) in
\* exactly one of found and unfound, with found[s] the cached value stored
\* under the id the export map gives for s; when F's export map is not cached,
\* found is empty and unfound is S.
C27_FoundOrUnfound ==
    CacheCalled("getCachedSymbolsFromFile") =>
        LookupSorted(cache, evIn.file, evIn.symbols, evOut, LAMBDA S : TRUE)

\* the same for the calls that pass a list of symbols
C27_Listed ==
    CacheCalled("getCachedSymbolsFromFile") =>
        LookupSorted(cache, evIn.file, evIn.symbols, evOut, LAMBDA S : ~S.all)

\* a call with a list has found the cached value of one name and not another
C27_ListedWitness ==
    /\ CacheCalled("getCachedSymbolsFromFile") /\ ~evIn.symbols.all
    /\ OMHas(cache.exportCache, evIn.file)
    /\ evOut.found # <<>> /\ evOut.unfound # <<>>

\* ---- the in-progress set -------------------------------------------------------

\* a call of load for this file has not returned yet
Pending(file) == \E i \in 1..Len(stack) : stack[i].op = "load" /\ stack[i].file = file
\* the innermost call, a call of load, returns
LoadReturns == Running /\ Top.op = "load" /\ stack' = Popped /\ status' # "error"

\* C23: every call of load(F, S) that returns, the early return on a request
\* the cache satisfies or that leaves no symbol to load included, has removed F
\* from the in-progress set when it returns; after a top-level load has
\* returned the set is empty; and a dependency is answered with the empty stub
\* only while a load of that file is pending.
C23_InProgressCleared ==
    /\ [][LoadReturns => Top.file \notin inProgress']_vars
    /\ [](status = "done" => inProgress = {})
    /\ [][LeDepStub => Pending(resolve(Files(prog), Head(Top.deps).source))]_vars

\* the same for the calls that return at the end of load (step 5)
C23_FullReturnClears ==
    [][(LoadReturns /\ Top.pc = "groups") => Top.file \notin inProgress']_vars

\* recurseImportedDependencies is at a dependency whose file is in the in-progress set
AtInProgressDep ==
    /\ Running /\ Top.op = "le" /\ Top.pc = "deps" /\ Top.deps # <<>>
    /\ canResolve(Files(prog), Head(Top.deps).source)
    /\ resolve(Files(prog), Head(Top.deps).source) \in inProgress
\* the request now answered is for the file the request before it gave a stub for
StubbedBefore ==
    /\ status = "done" /\ evIn # Nil
    /\ evIn.between = [op |-> "stub", file |-> request.file]
\* the public names of file F that a request asks for
AskedNames(F, req) == {n \in Range(PublicNames(F)) : Wanted(req, n)}

\* a dependency whose file is in the in-progress set is not loaded: the step
\* starts no call, puts the empty asset in its place and writes nothing to the cache
C24_StubNotLoaded ==
    [][AtInProgressDep =>
          /\ Len(stack') = Len(stack)
          /\ stack'[Len(stack)].resolved =
                 putAsset(Top.resolved,
                          [source |-> Head(Top.deps).source,
                           id |-> resolve(Files(prog), Head(Top.deps).source),
                           exports |-> <<>>, links |-> <<>>, symbols |-> <<>>])
          /\ cache' = cache]_vars

\* a later top-level load of the file that was given a stub returns the
\* exports it was asked for, each with the properties declared
C24_StubbedFileLoads ==
    StubbedBefore =>
        /\ OMKeySet(result.exports) = AskedNames(request.file, request.req)
        /\ \A i \in 1..Len(result.exports) : Fresh(result.exports[i].v)

\* C24: a dependency load of a file that is in the in-progress set does not
\* recurse into it and uses a stub asset with empty exports, links and symbols
\* for that dependency; the stub is not written to the cache, and a later
\* top-level load of the stubbed file returns its real exports.
C24_StubForInProgress ==
    /\ C24_StubNotLoaded
    /\ [](C24_StubbedFileLoads)

\* the later load of the stubbed file, for a request that lists its symbols
C24_ListedAfterStub ==
    (StubbedBefore /\ ~request.req.all) =>
        /\ OMKeySet(result.exports) = AskedNames(request.file, request.req)
        /\ \A i \in 1..Len(result.exports) : Fresh(result.exports[i].v)

C24_ListedWitness ==
    /\ StubbedBefore /\ ~request.req.all /\ result.exports # <<>>

\* ---- invalidation during a load -----------------------------------------------

\* the load that has finished was suspended when file F changed and was invalidated
InvalidatedDuring(F) == status = "done" /\ evOut = [op |-> "invalidate", file |-> F]
\* the entries of the cached export maps, of F and of the files that re-export
\* from F, that stand for a declaration of F
EntriesOf(F) ==
    UNION {{OMGet(cache.exportCache, G)[i].v : i \in 1..Len(OMGet(cache.exportCache, G))}
           : G \in OMKeySet(cache.exportCache)}
      \cap {e \in UNION {{OMGet(cache.exportCache, G)[i].v : i \in 1..Len(OMGet(cache.exportCache, G))}
                         : G \in OMKeySet(cache.exportCache)} : e.id.file = F}

\* C25: when invalidateFile(F) was issued while a load that reads F was
\* suspended, then once the load has finished no export map in the cache, of F
\* or of a file re-exporting from F, holds an entry made from F as it was
\* before the invalidation: every entry for a declaration of F is the
\* declaration in F's current source. (The AST cache of the model records
\* which files are parsed, not their content.)
C25_NoStaleAfterInvalidation ==
    \A F \in FileNames(prog) :
        InvalidatedDuring(F) => \A e \in EntriesOf(F) : e.path \in CurrentDecls

\* how a request ended
Outcome(t) == [status |-> t.status, result |-> t.result]
\* the request that is running
Task ==
    [stack |-> stack, inProgress |-> inProgress, ret |-> ret, status |-> status,
     result |-> result, request |-> request]
\* the two requests run together
Together == evIn # Nil /\ evIn.other # Nil
\* the running request passes over the dependency on file F without loading it
TookStub(F) ==
    /\ Running /\ Top.op = "le" /\ Top.pc = "deps" /\ Top.deps # <<>>
    /\ canResolve(Files(prog), Head(Top.deps).source)
    /\ F = resolve(Files(prog), Head(Top.deps).source)
    /\ request' = request /\ status' = "running"
    /\ Len(stack') = Len(stack) /\ stack' # stack

\* each of the two requests that has ended, ended as it did alone
C26_SameAsAlone ==
    Together =>
        \A t \in {Task, evIn.other} :
            t.status \in {"done", "error"} => Outcome(t) = OMGet(evIn.alone, t.request.file)

\* a dependency is passed over only when its file is one the request itself is loading
C26_OwnInProgress ==
    [][Together => \A F \in FileNames(prog) : TookStub(F) => Pending(F)]_vars

ApplyDone == evIn # Nil /\ evIn.op = "apply" /\ evOut # Nil
\* Base<args> stands in a merge position
MergeSite == evIn.site \in {"extends", "props"}
\* the properties of Base where the output holds them: flattened into C, or the props of C
AppliedProps ==
    IF evIn.site = "extends" THEN OMGet(evOut.exports, "C").properties
    ELSE OMGet(evOut.exports, "C").props.properties
ValueOf(k) == OMGet(AppliedProps, k).value

\* the identifiers of Base's body that name T or U hold the argument, or U its default
C28_BodyBound ==
    (ApplyDone /\ MergeSite) =>
        /\ Len(evIn.args) >= 1 =>
               /\ ValueOf("a") = evIn.args[1]
               /\ ValueOf("u") = Union(<<evIn.args[1], Str("x")>>)
        /\ ValueOf("b") = IF Len(evIn.args) >= 2 THEN evIn.args[2] ELSE Str("d")
        /\ ValueOf("n") = Num

\* the identifier T of C's own body, visited after the visit of Base<args> ended, is kept
C28_FrameDropped ==
    (ApplyDone /\ evIn.site = "extends") => ValueOf("c") = Ident("T")

\* the identifier of G, which Base extends without passing its parameters on,
\* holds none of the arguments of Base
C28_ExtendedKept ==
    (ApplyDone /\ MergeSite /\ evIn.grand \in {"plain", "applied"}) =>
        ValueOf("g") \notin Range(evIn.args)

\* C28: an interface with type parameters that is reached through a generic
\* application in a merge position (component props or extends) has every
\* identifier of its body that names one of its type parameters replaced by
\* the type argument of the application, or by the parameter's default when
\* the application has fewer arguments; the arguments are not applied to
\* identifiers of the interfaces this base itself extends, and what the
\* application bound is dropped when the visit of the node ends.
C28_TypeArguments ==
    /\ C28_BodyBound
    /\ C28_ExtendedKept
    /\ C28_FrameDropped

RECURSIVE Unfolded(_, _, _)
\* the copy of value v in which an object that lies on the path from the
\* root to v is a link, and every other object is copied key by key
Unfolded(heap, v, path) ==
    IF "prim" \in DOMAIN v THEN v
    ELSE IF "arr" \in DOMAIN v
    THEN [arr |-> [i \in 1..Len(v.arr) |-> Unfolded(heap, v.arr[i], path)]]
    ELSE IF v.ptr \in path THEN Link(heap[v.ptr].id)
    ELSE [obj |-> [i \in 1..Len(heap[v.ptr].fields) |->
                      [k |-> heap[v.ptr].fields[i].k,
                       v |-> Unfolded(heap, heap[v.ptr].fields[i].v, path \cup {v.ptr})]]]
WalkReturned == evIn # Nil /\ evIn.op = "walk" /\ status = "done"
\* the objects whose traversal has begun and not ended
BeingTraversed == {stack[i].of.ptr : i \in {j \in 1..Len(stack) : "ptr" \in DOMAIN stack[j].of}}

\* the marks are the objects being traversed, and none is left after the walk
C29_Marks ==
    /\ inProgress = BeingTraversed
    /\ WalkReturned => inProgress = {}
\* the result has a link exactly where an object is met inside its own traversal
C29_Result ==
    WalkReturned =>
        result = [obj |-> [i \in 1..Len(evIn.root) |->
                              [k |-> evIn.root[i].k,
                               v |-> Unfolded(evIn.heap, evIn.root[i].v, {})]]]

\* C29: the walker terminates on a node graph with reference cycles: an
\* object met again while it is being traversed is replaced by a link with
\* its id; the mark is removed when the traversal of the object ends, so no
\* mark is left after the walk, and an object reached twice on different
\* branches is traversed both times and is not replaced by a link.
C29_WalkTerminates ==
    /\ <>(status = "done")
    /\ [](C29_Marks)
    /\ [](C29_Result)

\* the walk of the graph with a shared object on a cycle has returned: B was
\* traversed twice from A, and A and B were replaced by links inside C
C29_Witness ==
    /\ WalkReturned
    /\ evIn.root = <<[k |-> "x", v |-> [ptr |-> "A"]]>>
    /\ evOut.entered = <<"A", "B", "C", "B", "C">>
    /\ evOut.linked = <<"A", "B", "A", "B">>

=============================================================================
